---- MODULE Spec2Model ----
(***************************************************************************)
(* documind-ai: the agent graph (route -> retrieve -> generate), its       *)
(* blocking and streaming entry points, the hybrid retriever, and the      *)
(* ingestion functions: chunk_document, embed_texts, upsert_vectors and    *)
(* ensure_collection, each under a specification of its own.  Further      *)
(* specifications cover the provider factory, two graph runs side by side, *)
(* the rate-limit middleware, the message list an agent sends to the chat  *)
(* model, the monthly quota gate, the processing attempts of a document    *)
(* and the WebSocket chat consumer.                                        *)
(*                                                                         *)
(* Text is modelled as a sequence: a query or a passage is the sequence    *)
(* of its whitespace-separated words, an answer is the sequence of its     *)
(* characters (each character named by its position).  Similarity scores   *)
(* are hundredths (0.65 is 65); combined scores are kept as exact          *)
(* integers over the common denominator 1000 * max(|queryTerms|, 1).       *)
(***************************************************************************)
EXTENDS Integers, Sequences, FiniteSets, TLC

\* ------------------------------------------------------------------ bounds
MaxHits == 3         \* longest candidate list the index returns to a direct retrieve call
MaxGraphHits == 2    \* longest candidate list the index returns inside a graph run
MaxTopK == 3         \* largest rerank_top_k of a direct retrieve call
MaxAnswerLen == 45   \* longest answer of the chat provider, in characters
MaxRerankLen == 2    \* longest result list handed to _rerank directly
MaxRuns == 3         \* most character runs in a document text
MaxRawChunks == 3    \* most pieces the text splitter returns for a text that does not fit
MaxTexts == 120      \* most texts handed to embed_texts
MaxFailBatch == 3    \* latest embed_documents or upsert call that may raise
MaxPoints == 201     \* most vectors handed to upsert_vectors
MaxEnsureCalls == 2  \* most ensure_collection calls of one ingestion run
MaxWindow == 1         \* the rate limiter's clock runs through windows 0..MaxWindow
MaxHistory == 12       \* a stored conversation holds at most this many turns
MaxDocChunks == 2      \* a processed document has at most this many chunks
MaxReindex == 1        \* a collection is re-indexed at most this many times

\* ------------------------------------------------------- program constants
ChunkSize == 20        \* graph.py: chunk_size = 20
NodeRerankTopK == 5    \* nodes.py: rerank_top_k=5
ScoreThreshold == 65   \* retriever.py: score_threshold = 0.65, in hundredths
ScoreWeight == 7       \* retriever.py: r["score"] * 0.7, in tenths
KeywordWeight == 3     \* retriever.py: keyword_overlap * 0.3, in tenths
SettingsChunkSize == 1000     \* settings: CHUNK_SIZE
SettingsChunkOverlap == 200   \* settings: CHUNK_OVERLAP
MinChunkChars == 20    \* chunking.py: len(content.strip()) < 20
CharsPerToken == 4     \* chunking.py: len(text) // 4
EmbedBatchSize == 50   \* pipeline.py: batch_size = 50
UpsertBatchSize == 100 \* qdrant_client.py: batch_size = 100
RateLimitUser == 100   \* rate_limiting.py: limit = 100 (authenticated)
RateLimitAnon == 20    \* rate_limiting.py: limit = 20 (anonymous)
ApiQuotaMonthly == 1000  \* accounts/models.py: api_quota_monthly default
TaskMaxRetries == 3    \* documents/tasks.py: max_retries=3
HistoryWindow == 10    \* nodes.py: state.get("history", [])[-10:]

None == "None"
Modes == {"qa", "research", "summarise", "analyse"}

\* ----------------------------------------------------------------- helpers
Min(a, b) == IF a <= b THEN a ELSE b
Max(a, b) == IF a >= b THEN a ELSE b

\* s[:k] of Python for k >= 0
Prefix(s, k) == SubSeq(s, 1, Min(k, Len(s)))

\* {**m, k: v}
DictSet(m, k, v) == [x \in (DOMAIN m) \cup {k} |-> IF x = k THEN v ELSE m[x]]
\* m.get(k, d)
DictGet(m, k, d) == IF k \in DOMAIN m THEN m[k] ELSE d
EmptyDict == [x \in {} |-> ""]

\* --------------------------------------------------------------- the words
\* str.lower() on one word
Lower(w) == CASE w = "RAG" -> "rag"
              [] w = "LLM" -> "llm"
              [] w = "What" -> "what"
              [] OTHER -> w

\* set(text.lower().split())
Terms(text) == {Lower(text[i]) : i \in DOMAIN text}

Queries == { << >>, <<"RAG">>, <<"What", "llm", "rag", "rag">> }
Contents == { <<"rag", "LLM">>, <<"llm">>, <<"other", "words">> }
Scores == {ScoreThreshold, 100}

\* ------------------------------------------------- the index's candidates
\* QdrantManager.search returns the hits at or above the threshold, highest raw
\* similarity first; each hit is {id, score, content, metadata}.
SortedDesc(f) == \A i \in 1..(Len(f) - 1) : f[i][1] >= f[i + 1][1]

MakeHit(i, sc) ==
    [id |-> i, score |-> sc[1], content |-> sc[2],
     document_id |-> "doc", chunk_index |-> i - 1]

HitListsOfLen(n) ==
    { [i \in 1..n |-> MakeHit(i, f[i])] :
        f \in { g \in [1..n -> Scores \X Contents] : SortedDesc(g) } }

HitLists(maxLen) == UNION { HitListsOfLen(n) : n \in 0..maxLen }

\* _rerank takes any list of results: any similarity, in any order.
RerankScores == {10, 90} \cup Scores
ResultLists(maxLen) ==
    UNION { { [i \in 1..n |-> MakeHit(i, f[i])] :
                f \in [1..n -> RerankScores \X Contents] } : n \in 0..maxLen }

\* ------------------------------------------------------- HybridRetriever
\* len(query_terms & content_terms)
KeywordMatches(query, content) == Cardinality(Terms(query) \cap Terms(content))

\* max(len(query_terms), 1)
QueryTermCount(query) == Max(Cardinality(Terms(query)), 1)

\* Mutant: the two weights exchanged, 0.3 on similarity and 0.7 on overlap.
CombinedScoreSwapped(query, r) ==
    KeywordWeight * r.score * QueryTermCount(query)
      + ScoreWeight * 100 * KeywordMatches(query, r.content)

\* (r["score"] * 0.7) + (keyword_overlap * 0.3), times 1000 * QueryTermCount(query)
CombinedScore(query, r) ==
    ScoreWeight * r.score * QueryTermCount(query)
      + KeywordWeight * 100 * KeywordMatches(query, r.content)

\* r["combined_score"] = ...
Annotate(query, r) ==
    [id |-> r.id, score |-> r.score, content |-> r.content,
     document_id |-> r.document_id, chunk_index |-> r.chunk_index,
     combined_score |-> CombinedScore(query, r)]

\* list.sort(key=combined_score, reverse=True): stable, highest first
RECURSIVE InsertDesc(_, _)
InsertDesc(x, sorted) ==
    IF sorted = << >> THEN <<x>>
    ELSE IF Head(sorted).combined_score >= x.combined_score
         THEN <<Head(sorted)>> \o InsertDesc(x, Tail(sorted))
         ELSE <<x>> \o sorted

RECURSIVE SortDesc(_)
SortDesc(s) ==
    IF s = << >> THEN << >>
    ELSE InsertDesc(s[Len(s)], SortDesc(SubSeq(s, 1, Len(s) - 1)))

\* Mutant: the sort without reverse=True, lowest combined score first.
RECURSIVE InsertAsc(_, _)
InsertAsc(x, sorted) ==
    IF sorted = << >> THEN <<x>>
    ELSE IF Head(sorted).combined_score <= x.combined_score
         THEN <<Head(sorted)>> \o InsertAsc(x, Tail(sorted))
         ELSE <<x>> \o sorted

RECURSIVE SortAsc(_)
SortAsc(s) ==
    IF s = << >> THEN << >>
    ELSE InsertAsc(s[Len(s)], SortAsc(SubSeq(s, 1, Len(s) - 1)))

rerank_ascending(query, results) ==
    SortAsc([i \in DOMAIN results |-> Annotate(query, results[i])])

rerank(query, results) ==
    SortDesc([i \in DOMAIN results |-> Annotate(query, results[i])])

\* Document(page_content=r["content"], metadata={score, point_id, **r["metadata"]})
ToDocument(r) ==
    [page_content |-> r.content, score |-> r.score, point_id |-> r.id,
     document_id |-> r.document_id, chunk_index |-> r.chunk_index]

\* What the LLM extractor keeps of one document when compression succeeds.
Extracted(doc) ==
    [page_content |-> Prefix(doc.page_content, 1), score |-> doc.score,
     point_id |-> doc.point_id, document_id |-> doc.document_id,
     chunk_index |-> doc.chunk_index]

\* The mocked providers' replies.
EmbedReplies == {"ok", "get_embeddings_raises", "embed_query_raises"}
SearchReplies(maxLen) ==
    { [kind |-> "hits", hits |-> h] : h \in HitLists(maxLen) }
      \cup { [kind |-> "search_raises", hits |-> << >>] }
CompressReplies == {"ok", "get_chat_model_raises", "from_llm_raises", "invoke_raises"}

\* Mutant: a failed compression returns no documents.
compress_drops(query, documents, compressReply) ==
    IF compressReply = "ok"
    THEN [i \in DOMAIN documents |-> Extracted(documents[i])]
    ELSE << >>

\* _compress: any exception of the compression chain returns the documents given
compress(query, documents, compressReply) ==
    IF compressReply = "ok"
    THEN [i \in DOMAIN documents |-> Extracted(documents[i])]
    ELSE documents

\* HybridRetriever(...).retrieve(query): the constructor resolves the embedding
\* provider, retrieve embeds, searches, re-ranks, converts and compresses.
\* The outcome is the documents, the exception that escaped ("none" if none)
\* and the calls made, in order.
retrieve(query, rerank_top_k, use_compression, embedR, searchR, compressR) ==
    IF embedR = "get_embeddings_raises"
    THEN [docs |-> << >>, raised |-> "get_embeddings", calls |-> <<"get_embeddings">>]
    ELSE IF embedR = "embed_query_raises"
    THEN [docs |-> << >>, raised |-> "embed_query",
          calls |-> <<"get_embeddings", "embed_query">>]
    ELSE IF searchR.kind = "search_raises"
    THEN [docs |-> << >>, raised |-> "search",
          calls |-> <<"get_embeddings", "embed_query", "search">>]
    ELSE IF searchR.hits = << >>
    THEN [docs |-> << >>, raised |-> "none",
          calls |-> <<"get_embeddings", "embed_query", "search">>]
    ELSE LET results == Prefix(rerank(query, searchR.hits), rerank_top_k)
             documents == [i \in DOMAIN results |-> ToDocument(results[i])]
         IN IF use_compression /\ documents # << >>
            THEN [docs |-> compress(query, documents, compressR), raised |-> "none",
                  calls |-> <<"get_embeddings", "embed_query", "search", "rerank",
                              "compress">>]
            ELSE [docs |-> documents, raised |-> "none",
                  calls |-> <<"get_embeddings", "embed_query", "search", "rerank">>]

\* ------------------------------------------------------------ agent nodes
ModelName == "model-x"
Collections == {None, "col-1"}

AnswerLens ==
    { n \in 0..MaxAnswerLen :
        n % ChunkSize \in {0, 1, ChunkSize - 1} \/ n = MaxAnswerLen }
Answers == { [i \in 1..n |-> i] : n \in AnswerLens }

RouterReplies ==
    { [kind |-> "decision", route |-> m, reasoning |-> "llm_reasoning"] : m \in Modes }
      \cup { [kind |-> k, route |-> "", reasoning |-> ""] :
               k \in {"unparseable", "invoke_raises", "get_chat_model_raises"} }
GenReplies ==
    { [kind |-> "content", content |-> a] : a \in Answers }
      \cup { [kind |-> k, content |-> << >>] :
               k \in {"invoke_raises", "get_chat_model_raises"} }

\* run_agent_graph / astream_agent_graph: initial_state
initial_state(q, coll, mode) ==
    [query |-> q, agent_mode |-> mode, collection_id |-> coll,
     retrieved_documents |-> << >>, answer |-> << >>, sources |-> << >>,
     next_node |-> "", metadata |-> EmptyDict]

Call(node, fns) == [i \in DOMAIN fns |-> [node |-> node, fn |-> fns[i]]]

\* Mutant: the explicit mode is not looked at, the chat model always decides.
route_query_always_llm(st, reply) ==
    IF reply.kind = "get_chat_model_raises"
    THEN [state |-> st, raised |-> "get_chat_model",
          calls |-> Call("router", <<"get_chat_model">>)]
    ELSE IF reply.kind = "invoke_raises"
    THEN [state |-> st, raised |-> "llm.invoke",
          calls |-> Call("router", <<"get_chat_model", "llm.invoke">>)]
    ELSE [state |-> [st EXCEPT !.next_node = IF reply.kind = "decision"
                                             THEN reply.route ELSE "qa",
                               !.metadata = DictSet(st.metadata, "route_reason",
                                                    IF reply.kind = "decision"
                                                    THEN reply.reasoning ELSE "fallback")],
          raised |-> "none",
          calls |-> Call("router", <<"get_chat_model", "llm.invoke">>)]

\* Mutant: the parse of the reply is not guarded, its exception escapes.
route_query_parse_raises(st, reply) ==
    IF st.agent_mode # "" /\ st.agent_mode # "qa"
    THEN [state |-> [st EXCEPT !.next_node = st.agent_mode,
                               !.metadata = DictSet(st.metadata, "route_reason",
                                                    "user_selected")],
          raised |-> "none", calls |-> << >>]
    ELSE IF reply.kind = "get_chat_model_raises"
    THEN [state |-> st, raised |-> "get_chat_model",
          calls |-> Call("router", <<"get_chat_model">>)]
    ELSE IF reply.kind = "invoke_raises"
    THEN [state |-> st, raised |-> "llm.invoke",
          calls |-> Call("router", <<"get_chat_model", "llm.invoke">>)]
    ELSE IF reply.kind = "decision"
    THEN [state |-> [st EXCEPT !.next_node = reply.route,
                               !.metadata = DictSet(st.metadata, "route_reason",
                                                    reply.reasoning)],
          raised |-> "none",
          calls |-> Call("router", <<"get_chat_model", "llm.invoke">>)]
    ELSE [state |-> st, raised |-> "parser.parse",
          calls |-> Call("router", <<"get_chat_model", "llm.invoke">>)]

\* route_query: an explicit mode other than qa is taken as it is; otherwise the
\* chat model is built and invoked (both outside the try), and only the parse
\* of its reply is guarded.
route_query(st, reply) ==
    IF st.agent_mode # "" /\ st.agent_mode # "qa"
    THEN [state |-> [st EXCEPT !.next_node = st.agent_mode,
                               !.metadata = DictSet(st.metadata, "route_reason",
                                                    "user_selected")],
          raised |-> "none", calls |-> << >>]
    ELSE IF reply.kind = "get_chat_model_raises"
    THEN [state |-> st, raised |-> "get_chat_model",
          calls |-> Call("router", <<"get_chat_model">>)]
    ELSE IF reply.kind = "invoke_raises"
    THEN [state |-> st, raised |-> "llm.invoke",
          calls |-> Call("router", <<"get_chat_model", "llm.invoke">>)]
    ELSE IF reply.kind = "decision"
    THEN [state |-> [st EXCEPT !.next_node = reply.route,
                               !.metadata = DictSet(st.metadata, "route_reason",
                                                    reply.reasoning)],
          raised |-> "none",
          calls |-> Call("router", <<"get_chat_model", "llm.invoke">>)]
    ELSE [state |-> [st EXCEPT !.next_node = "qa",
                               !.metadata = DictSet(st.metadata, "route_reason",
                                                    "fallback")],
          raised |-> "none",
          calls |-> Call("router", <<"get_chat_model", "llm.invoke">>)]

\* state["sources"] = [{content, score, document_id, chunk_index} for doc in docs]
\* (the cut of the content to 300 characters is not represented: a passage
\* is a sequence of words here)
SourceOf(doc) ==
    [content |-> doc.page_content, score |-> doc.score,
     document_id |-> doc.document_id, chunk_index |-> doc.chunk_index]

\* Mutant: the retriever is built and asked also when no collection is bound.
retrieve_documents_no_guard(st, embedR, searchR) ==
    LET o == retrieve(st.query, NodeRerankTopK, FALSE, embedR, searchR, "ok")
    IN IF o.raised # "none"
       THEN [state |-> st, raised |-> o.raised, calls |-> Call("retriever", o.calls)]
       ELSE [state |-> [st EXCEPT !.retrieved_documents = o.docs,
                                  !.sources = [i \in DOMAIN o.docs |->
                                                 SourceOf(o.docs[i])]],
             raised |-> "none", calls |-> Call("retriever", o.calls)]

\* retrieve_documents: no collection, no retriever; otherwise
\* HybridRetriever(top_k=10, rerank_top_k=5, use_compression=False).retrieve
retrieve_documents(st, embedR, searchR) ==
    IF st.collection_id = None \/ st.collection_id = ""
    THEN [state |-> [st EXCEPT !.retrieved_documents = << >>],
          raised |-> "none", calls |-> << >>]
    ELSE LET o == retrieve(st.query, NodeRerankTopK, FALSE, embedR, searchR, "ok")
         IN IF o.raised # "none"
            THEN [state |-> st, raised |-> o.raised, calls |-> Call("retriever", o.calls)]
            ELSE [state |-> [st EXCEPT !.retrieved_documents = o.docs,
                                       !.sources = [i \in DOMAIN o.docs |->
                                                      SourceOf(o.docs[i])]],
                  raised |-> "none", calls |-> Call("retriever", o.calls)]

\* Mutant: a failed invocation is answered with a canned text.
generate_canned(agent, st, reply) ==
    IF reply.kind = "get_chat_model_raises"
    THEN [state |-> st, raised |-> "get_chat_model",
          calls |-> Call(agent, <<"get_chat_model">>)]
    ELSE [state |-> [st EXCEPT !.answer = IF reply.kind = "invoke_raises"
                                          THEN <<1, 2, 3>> ELSE reply.content,
                               !.metadata = DictSet(DictSet(st.metadata, "agent", agent),
                                                    "model", ModelName)],
          raised |-> "none",
          calls |-> Call(agent, <<"get_chat_model", "llm.invoke">>)]

\* Mutant: the agent replaces the metadata wholesale.
generate_replaces_metadata(agent, st, reply) ==
    IF reply.kind = "get_chat_model_raises"
    THEN [state |-> st, raised |-> "get_chat_model",
          calls |-> Call(agent, <<"get_chat_model">>)]
    ELSE IF reply.kind = "invoke_raises"
    THEN [state |-> st, raised |-> "llm.invoke",
          calls |-> Call(agent, <<"get_chat_model", "llm.invoke">>)]
    ELSE [state |-> [st EXCEPT !.answer = reply.content,
                               !.metadata = DictSet(DictSet(EmptyDict, "agent", agent),
                                                    "model", ModelName)],
          raised |-> "none",
          calls |-> Call(agent, <<"get_chat_model", "llm.invoke">>)]

\* Mutant: the agent also resets the sources.
generate_resets_sources(agent, st, reply) ==
    IF reply.kind = "get_chat_model_raises"
    THEN [state |-> st, raised |-> "get_chat_model",
          calls |-> Call(agent, <<"get_chat_model">>)]
    ELSE IF reply.kind = "invoke_raises"
    THEN [state |-> st, raised |-> "llm.invoke",
          calls |-> Call(agent, <<"get_chat_model", "llm.invoke">>)]
    ELSE [state |-> [st EXCEPT !.answer = reply.content, !.sources = << >>,
                               !.metadata = DictSet(DictSet(st.metadata, "agent", agent),
                                                    "model", ModelName)],
          raised |-> "none",
          calls |-> Call(agent, <<"get_chat_model", "llm.invoke">>)]

\* The body the four specialist agents share: build the chat model, invoke it,
\* store the answer and add agent and model to the metadata.
generate(agent, st, reply) ==
    IF reply.kind = "get_chat_model_raises"
    THEN [state |-> st, raised |-> "get_chat_model",
          calls |-> Call(agent, <<"get_chat_model">>)]
    ELSE IF reply.kind = "invoke_raises"
    THEN [state |-> st, raised |-> "llm.invoke",
          calls |-> Call(agent, <<"get_chat_model", "llm.invoke">>)]
    ELSE [state |-> [st EXCEPT !.answer = reply.content,
                               !.metadata = DictSet(DictSet(st.metadata, "agent", agent),
                                                    "model", ModelName)],
          raised |-> "none",
          calls |-> Call(agent, <<"get_chat_model", "llm.invoke">>)]

qa_agent(st, reply) == generate("qa", st, reply)
research_agent(st, reply) == generate("research", st, reply)
summarise_agent(st, reply) == generate("summarise", st, reply)
analyse_agent(st, reply) == generate("analyse", st, reply)

\* ------------------------------------------------------------- the graph
\* Mutant: the branch is always qa, whatever the router chose.
ConditionalEdgeAlwaysQa(st) == "qa"

\* add_conditional_edges("retriever", lambda state: state["next_node"], {...})
ConditionalEdge(st) == st.next_node

\* graph.add_node(name, fn) for the four agents
AgentNode(name, st, reply) ==
    CASE name = "qa" -> qa_agent(st, reply)
      [] name = "research" -> research_agent(st, reply)
      [] name = "summarise" -> summarise_agent(st, reply)
      [] name = "analyse" -> analyse_agent(st, reply)

\* run_agent_graph: the returned dict
BlockingResult(st) ==
    [answer |-> st.answer, sources |-> st.sources,
     model |-> DictGet(st.metadata, "model", ""), metadata |-> st.metadata]

\* Mutant: the sources event is yielded also for an empty source list.
SourcesDueAlways(node_output) == TRUE

\* astream_agent_graph: node_name == "retriever" and node_output.get("sources")
SourcesDue(node_output) == node_output.sources # << >>

\* Mutant: answer[i : i + chunk_size - 1], one character lost per fragment.
TokenSliceShort(answer, i) == SubSeq(answer, i + 1, Min(i + ChunkSize - 1, Len(answer)))

\* astream_agent_graph: answer[i : i + chunk_size]
TokenSlice(answer, i) == SubSeq(answer, i + 1, Min(i + ChunkSize, Len(answer)))

\* ------------------------------------------------------------ the chunker
\* A text is the sequence of its maximal runs of one character, [ch, n] for n
\* times ch: "x" is any character that is not white space.  <<[x,3],[" ",2]>>
\* is "xxx  ".
Whitespace == {" ", "\n"}
Run(c, k) == [ch |-> c, n |-> k]

RECURSIVE Length(_)
\* len(text)
Length(t) == IF t = << >> THEN 0 ELSE Head(t).n + Length(Tail(t))

RunSet ==
    { Run("x", k) : k \in {3, 17, 20, 23} }
      \cup { Run(" ", k) : k \in {1, 3} }
      \cup { Run("\n", k) : k \in {2, 4} }

TextsOfRuns(k) ==
    { t \in [1..k -> RunSet] : \A i \in 1..(k - 1) : t[i].ch # t[i + 1].ch }
Texts == UNION { TextsOfRuns(k) : k \in 0..MaxRuns }

\* str.strip()
RECURSIVE LStrip(_)
LStrip(t) == IF t # << >> /\ Head(t).ch \in Whitespace THEN LStrip(Tail(t)) ELSE t
RECURSIVE RStrip(_)
RStrip(t) ==
    IF t # << >> /\ t[Len(t)].ch \in Whitespace
    THEN RStrip(SubSeq(t, 1, Len(t) - 1))
    ELSE t
Strip(t) == RStrip(LStrip(t))

\* re.sub(pattern, repl, text) for a pattern "c{k,}" and a replacement of m times c
SubRuns(t, c, k, m) ==
    [i \in DOMAIN t |-> IF t[i].ch = c /\ t[i].n >= k THEN Run(c, m) ELSE t[i]]

\* Mutant: the cleaning that leaves runs of spaces as they are.
clean_chunk_keeps_spaces(text) == Strip(SubRuns(text, "\n", 3, 2))

\* _clean_chunk
clean_chunk(text) == Strip(SubRuns(SubRuns(text, "\n", 3, 2), " ", 2, 1))

\* Mutant: the estimate rounded up.
estimate_tokens_ceil(text) == (Length(text) + CharsPerToken - 1) \div CharsPerToken

\* _estimate_tokens
estimate_tokens(text) == Length(text) \div CharsPerToken

Strategies == {"recursive", "markdown", "token", "semantic"}

\* _get_splitter: which splitter class is constructed
get_splitter(strategy) ==
    CASE strategy = "markdown" -> "MarkdownTextSplitter"
      [] strategy = "token" -> "TokenTextSplitter"
      [] OTHER -> "RecursiveCharacterTextSplitter"

\* The pieces a splitter may cut out of a text that does not fit in one chunk.
Pieces ==
    { <<Run("x", 25)>>, <<Run("x", 5)>>,
      <<Run("x", 10), Run(" ", 3), Run("x", 8)>>,
      <<Run(" ", 2), Run("x", 21), Run("\n", 4), Run("x", 1)>> }
PieceLists == UNION { [1..k -> Pieces] : k \in 0..MaxRawChunks }

\* splitter.split_text(text): a text that fits in one chunk comes back as one
\* piece (trimmed by the character splitters, dropped if nothing is left);
\* for a longer text the pieces are whatever the splitter cuts.
split_text(splitter, text, chunk_size, pieces) ==
    IF Length(text) <= chunk_size
    THEN LET piece == IF splitter = "TokenTextSplitter" THEN text ELSE Strip(text)
         IN IF piece = << >> THEN << >> ELSE <<piece>>
    ELSE pieces

\* Mutant: the loop without the length test.
keep_chunk_always(content) == TRUE

\* not (len(content.strip()) < 20)
keep_chunk(content) == ~(Length(Strip(content)) < MinChunkChars)

\* one pass of the loop body: the chunk built for raw chunk number i
make_chunk(i, raw, strategy) ==
    LET content == clean_chunk(raw)
    IN [chunk_index |-> i, content |-> content,
        token_count |-> estimate_tokens(content),
        strategy |-> strategy, char_count |-> Length(content)]

\* chunk_document(text, {}, chunk_size, chunk_overlap, strategy); 0 stands for
\* an argument that is None or 0.  The splitter's constructor rejects an
\* overlap larger than the chunk size.
chunk_document(text, chunk_size, chunk_overlap, strategy, pieces) ==
    LET size == IF chunk_size = 0 THEN SettingsChunkSize ELSE chunk_size
        overlap == IF chunk_overlap = 0 THEN SettingsChunkOverlap ELSE chunk_overlap
        splitter == get_splitter(strategy)
    IN IF overlap > size
       THEN [chunks |-> << >>, raised |-> "ValueError", splitter |-> splitter,
             raw_chunks |-> << >>]
       ELSE LET raw_chunks == split_text(splitter, text, size, pieces)
                built == [i \in DOMAIN raw_chunks |->
                            make_chunk(i - 1, raw_chunks[i], strategy)]
            IN [chunks |-> SelectSeq(built, LAMBDA c : keep_chunk(c.content)),
                raised |-> "none", splitter |-> splitter,
                raw_chunks |-> raw_chunks]

\* ------------------------------------------------- RAGPipeline.embed_texts
\* The vector the provider returns for one text.
Embed(t) == [embedding_of |-> t]

\* self.embeddings.embed_documents(batch) of a provider that answers
embed_documents(batch) == [k \in DOMAIN batch |-> Embed(batch[k])]

\* Mutant: the slice without its upper end, texts[i:].
batch_to_end(texts, i) == SubSeq(texts, i + 1, Len(texts))

\* texts[i : i + batch_size]
batch_of(texts, i) == SubSeq(texts, i + 1, Min(i + EmbedBatchSize, Len(texts)))

\* What the embedding provider does: it answers, LLMFactory.get_embeddings
\* raises, or its k-th embed_documents call raises.
EmbedProviderReplies ==
    { [kind |-> "ok", at |-> 0], [kind |-> "get_embeddings_raises", at |-> 0] }
      \cup { [kind |-> "embed_documents_raises", at |-> k] : k \in 1..MaxFailBatch }

\* ------------------------------------------- QdrantManager.upsert_vectors
\* Mutant: one identifier used for every vector.
repeated_uuid(last, n) == [k \in 1..n |-> last + 1]

\* [str(uuid.uuid4()) for _ in embeddings]: n identifiers never issued before;
\* `last` is the latest identifier issued so far.
fresh_uuids(last, n) == [k \in 1..n |-> last + k]

\* [PointStruct(id, vector, payload) for ... in zip(point_ids, embeddings, payloads)]
zip_points(point_ids, embeddings, payloads) ==
    [k \in 1..Min(Len(point_ids), Min(Len(embeddings), Len(payloads))) |->
       [id |-> point_ids[k], vector |-> embeddings[k], payload |-> payloads[k]]]

\* points[i : i + batch_size]
points_batch(points, i) == SubSeq(points, i + 1, Min(i + UpsertBatchSize, Len(points)))

\* What the index does with the upsert calls: it takes them all, or the k-th raises.
UpsertReplies ==
    { [kind |-> "ok", at |-> 0] }
      \cup { [kind |-> "upsert_raises", at |-> k] : k \in 1..MaxFailBatch }

\* The payload _store_chunks builds for chunk number k.
Payload(k) == [document_id |-> "doc", chunk_index |-> k - 1]

\* ------------------------------------------------------------- LLMFactory
\* PROVIDER_MAP and EMBEDDING_PROVIDER_MAP: the registered names
PROVIDER_MAP == {"azure_openai", "bedrock"}
EMBEDDING_PROVIDER_MAP == {"azure_openai", "bedrock"}

\* Mutant: an omitted name is always taken as "azure_openai".
resolve_name_fixed(provider_name, default) ==
    IF provider_name = None \/ provider_name = "" THEN "azure_openai" ELSE provider_name

\* name = provider_name or settings.LLM_PROVIDER
resolve_name(provider_name, default) ==
    IF provider_name = None \/ provider_name = "" THEN default ELSE provider_name

\* The lookup both factory functions share: the class registered under the
\* name is instantiated, or ValueError(f"Unknown ... provider: {name}.
\* Available: {list(map)}") is raised.
lookup(what, registry, provider_name, default) ==
    LET name == resolve_name(provider_name, default)
    IN IF name \notin registry
       THEN [handle |-> << >>, raised |-> "ValueError",
             message |-> <<[name |-> name, available |-> registry]>>]
       ELSE [handle |-> <<[what |-> what, provider |-> name]>>, raised |-> "none",
             message |-> << >>]

\* LLMFactory.get_provider(provider_name).get_chat_model() / get_streaming_model()
get_provider(what, provider_name, default) ==
    lookup(what, PROVIDER_MAP, provider_name, default)

\* LLMFactory.get_embeddings(provider_name)
get_embeddings(provider_name, default) ==
    lookup("embeddings", EMBEDDING_PROVIDER_MAP, provider_name, default)

\* ------------------------------------------------------ RateLimitMiddleware
\* key and limit of a request: the user id of an authenticated request,
\* otherwise the client ip
rate_key(req) ==
    IF req.user # "" THEN "ratelimit:user:" \o req.user ELSE "ratelimit:anon:" \o req.ip
rate_limit(req) == IF req.user # "" THEN RateLimitUser ELSE RateLimitAnon

\* Mutant: one state dict shared by every invocation of the compiled graph.
write_state_shared(states, r, st) == [x \in DOMAIN states |-> st]

\* _compiled_graph.invoke(initial_state): the state a node returns becomes
\* the state of the invocation that ran the node.
write_state(states, r, st) == [states EXCEPT ![r] = st]

\* ------------------------------------------------------------------ state
Runs == {"blocking", "streaming"}

VARIABLES
    query,            \* the arguments both entry points are called with
    agent_mode,
    collection_id,
    routerReply,      \* the mocked providers: what each answers, fixed by the
    genReply,         \* first call that asks (empty until then)
    embedReply,
    searchReply,
    pc,               \* per run: the node or yield that is next
    state,            \* per run: its AgentState
    trace,            \* per run: the nodes entered, in order
    calls,            \* per run: the provider and index calls made, in order
    raised,           \* per run: the exception that escaped ("none" if none)
    events,           \* streaming run: the events yielded so far
    tokenPos,         \* streaming run: i of the token loop
    result,           \* blocking run: the value returned (empty until then)
    rpc,              \* direct retriever call: "idle", "call" or "returned"
    rOp,              \* which function is called directly
    rTopK,            \* its rerank_top_k
    rUseCompression,  \* its use_compression
    compressReply,    \* what the compression chain does
    rOut,             \* its outcome
    cpc,              \* chunk_document call: "idle", "call" or "returned"
    cText,            \* its text
    cSize,            \* its chunk_size (0: None)
    cOverlap,         \* its chunk_overlap (0: None)
    cStrategy,        \* its strategy
    cOut,             \* its outcome
    epc,              \* embed_texts call: "idle", "loop", "returned" or "error"
    eTexts,           \* its texts
    eReply,           \* what the embedding provider does
    eI,               \* i of its loop
    eCalls,           \* the batches handed to embed_documents, in order
    eAll,             \* all_embeddings
    eOut,             \* [value, raised] when it has ended
    upc,              \* upsert_vectors call: "idle", "call", "loop", "returned", "error"
    uEmbeddings,      \* its embeddings
    uPayloads,        \* its payloads
    uReply,           \* what the index does with the upsert calls
    uuidLast,         \* the latest identifier uuid4 issued
    uPointIds,        \* point_ids
    uPoints,          \* points
    uI,               \* i of its loop
    uCalls,           \* the points of each client.upsert call, in order
    uOut,             \* [value, raised] when it has ended
    qdrant,           \* the names of the collections the index holds
    wpc,              \* per ingestion run: where its ensure_collection call is
    wName,            \* per ingestion run: collection_name
    wLeft,            \* per ingestion run: ensure_collection calls still to make
    wRaised,          \* per ingestion run: what its latest call raised ("none" if nothing)
    createLog,        \* the create_collection requests: by whom, for which name,
                      \* and whether the collection was there when the request arrived
    fpc,              \* LLMFactory call: "idle", "call" or "returned"
    fWhat,            \* what is resolved: "chat", "streaming" or "embeddings"
    fName,            \* provider_name
    fDefault,         \* settings.LLM_PROVIDER
    fOut,             \* its outcome
    xpc,              \* per concurrent run: the node that is next, "done" or "error"
    xIn,              \* per concurrent run: its arguments and the replies it is given
    xState,           \* per concurrent run: its AgentState
    xStages,          \* per concurrent run: the number of nodes it has entered
    xClient,          \* QdrantManager._client, shared by the runs: "unset" or "set"
    rlClock,          \* int(now // window): the current 60-second window
    rlCache,          \* the cache: per rate-limit key and window, the counter (0: no entry)
    rlPassed,         \* per key and window: the /api/ requests handed to get_response
    qpc,              \* per request: "idle", "new", "set" or "done"
    qReq,             \* per request: its user ("" if anonymous), client ip and path
    qWindow,          \* per request: the window of its window_key
    qCurrent,         \* per request: current, as read from the cache
    qStatus,          \* per request: the response status (0 until there is one)
    \* a chat request and the messages its agent sends to the chat model
    mpc,              \* "start", "saved", "loaded", "sent"
    mEntry,           \* "rest" (views.chat), "ws" (ChatConsumer.receive), "direct"
    mAgent,           \* the agent node that runs
    mRows,            \* the conversation's Message rows, ordered by created_at
    mMessage,         \* the content of the current user message
    mHistory,         \* state["history"]
    mSent,            \* the list handed to llm.invoke
    \* the monthly quota of one user and the chat requests of that user
    apiCalls,         \* User.api_calls_this_month, the stored value
    kpc,              \* per chat request: "new", "admitted", "ran", "done",
                      \* "refused", "failed"
    kEntry,           \* per chat request: "rest" or "ws"
    kSeen,            \* per chat request: api_calls_this_month as has_quota read it
    \* one document and the tasks that process it
    dStatus,          \* Document.status
    dChunkCount,      \* Document.chunk_count
    dChunks,          \* how many chunks chunk_document makes of the document
    dRows,            \* the document's DocumentChunk rows: chunk_index, qdrant_point_id
    dVectors,         \* the ids of the index points whose payload names the document
    dNextPoint,       \* the uuids handed out so far
    tpc,              \* where the task is: "queued", "load", "store", "rows",
                      \* "complete", or "idle" when no task is queued or running
    tPoints,          \* point_ids of the running attempt
    tRetries,         \* self.request.retries of the task
    tReindexed,       \* how many times the collection was re-indexed
    \* ChatConsumer.receive for one message that passed validation and quota
    wsPc,             \* "admitted", "save_user", "streaming", "persist",
                      \* "increment", "end", "returned", "raised"
    wsIn,             \* what the message meets: the conversation lookup, the
                      \* pipeline's answer, sources and failure, the database
    wsQueue,          \* the events astream_agent_graph has yet to yield
    wsSent,           \* the messages sent to the client, in order
    wsFull,           \* full_response
    wsPersisted,      \* the contents of the assistant messages saved
    wsUsage           \* how many times _increment_usage ran

envVars == <<routerReply, genReply, embedReply, searchReply>>
argVars == <<query, agent_mode, collection_id>>
runVars == <<pc, state, trace, calls, raised, events, tokenPos, result>>
retVars == <<rpc, rOp, rTopK, rUseCompression, compressReply, rOut>>
chunkVars == <<cpc, cText, cSize, cOverlap, cStrategy, cOut>>
embVars == <<epc, eTexts, eReply, eI, eCalls, eAll, eOut>>
upsVars == <<upc, uEmbeddings, uPayloads, uReply, uuidLast, uPointIds, uPoints, uI,
            uCalls, uOut>>
ensVars == <<qdrant, wpc, wName, wLeft, wRaised, createLog>>
ingestVars == <<chunkVars, embVars, upsVars, ensVars>>
facVars == <<fpc, fWhat, fName, fDefault, fOut>>
conVars == <<xpc, xIn, xState, xStages, xClient>>
rlVars == <<rlClock, rlCache, rlPassed, qpc, qReq, qWindow, qCurrent, qStatus>>
msgVars == <<mpc, mEntry, mAgent, mRows, mMessage, mHistory, mSent>>
quotaVars == <<apiCalls, kpc, kEntry, kSeen>>
procVars == <<dStatus, dChunkCount, dChunks, dRows, dVectors, dNextPoint, tpc, tPoints,
              tRetries, tReindexed>>
wsVars == <<wsPc, wsIn, wsQueue, wsSent, wsFull, wsPersisted, wsUsage>>
appVars == <<msgVars, quotaVars, procVars, wsVars>>
msgOthers == <<quotaVars, procVars, wsVars>>
quotaOthers == <<msgVars, procVars, wsVars>>
procOthers == <<msgVars, quotaVars, wsVars>>
wsOthers == <<msgVars, quotaVars, procVars>>
svcVars == <<facVars, conVars, rlVars, appVars>>
coreVars == <<argVars, envVars, runVars, retVars, ingestVars>>
vars == <<argVars, envVars, runVars, retVars, ingestVars, svcVars>>

NoOutcome == [docs |-> << >>, raised |-> "none", calls |-> << >>]

NoChunks ==
    [chunks |-> << >>, raised |-> "none", splitter |-> "none", raw_chunks |-> << >>]

\* chunk_document is not called.
ChunkerIdle ==
    /\ cpc = "idle" /\ cText = << >> /\ cSize = 0 /\ cOverlap = 0
    /\ cStrategy = "recursive" /\ cOut = NoChunks

NoEmbedOutcome == [value |-> << >>, raised |-> "none"]

\* embed_texts is not called.
EmbedIdle ==
    /\ epc = "idle" /\ eTexts = << >> /\ eReply = [kind |-> "ok", at |-> 0]
    /\ eI = 0 /\ eCalls = << >> /\ eAll = << >> /\ eOut = NoEmbedOutcome

NoUpsertOutcome == [value |-> << >>, raised |-> "none"]

\* upsert_vectors is not called.
UpsertIdle ==
    /\ upc = "idle" /\ uEmbeddings = << >> /\ uPayloads = << >>
    /\ uReply = [kind |-> "ok", at |-> 0] /\ uuidLast = 0
    /\ uPointIds = << >> /\ uPoints = << >> /\ uI = 0 /\ uCalls = << >>
    /\ uOut = NoUpsertOutcome

\* The ingestion runs (Celery tasks) that may be in flight together.
Workers == {"w1", "w2"}

\* ensure_collection is not called.
EnsureIdle ==
    /\ qdrant = {}
    /\ wpc = [w \in Workers |-> "idle"]
    /\ wName = [w \in Workers |-> "col-1"]
    /\ wLeft = [w \in Workers |-> 0]
    /\ wRaised = [w \in Workers |-> "none"]
    /\ createLog = << >>

\* No ingestion function is called.
IngestIdle == ChunkerIdle /\ EmbedIdle /\ UpsertIdle /\ EnsureIdle

NoHandle == [handle |-> << >>, raised |-> "none", message |-> << >>]

\* The factory is not called.
FactoryIdle ==
    /\ fpc = "idle" /\ fWhat = "chat" /\ fName = None /\ fDefault = "azure_openai"
    /\ fOut = NoHandle

\* The pipeline runs in flight together in one process.
Invocations == {"a", "b"}

IdleInput ==
    [query |-> << >>, agent_mode |-> "qa", collection_id |-> None,
     router |-> [kind |-> "unparseable", route |-> "", reasoning |-> ""],
     embed |-> "ok", search |-> [kind |-> "hits", hits |-> << >>],
     gen |-> [kind |-> "invoke_raises", content |-> << >>]]

\* No concurrent run is in progress.
ConcurrentIdle ==
    /\ xpc = [r \in Invocations |-> "idle"]
    /\ xIn = [r \in Invocations |-> IdleInput]
    /\ xState = [r \in Invocations |-> initial_state(<< >>, None, "qa")]
    /\ xStages = [r \in Invocations |-> 0]
    /\ xClient = "unset"

\* The HTTP requests in flight together, the rate-limit keys and the windows.
Requests == {"q1", "q2", "q3"}
RateKeys == {"ratelimit:user:u1", "ratelimit:anon:ip1"}
Windows == 0..MaxWindow

IdleRequest == [user |-> "", ip |-> "ip1", api |-> FALSE]

\* No request is at the middleware.
RateLimitIdle ==
    /\ rlClock = 0
    /\ rlCache = [k \in RateKeys |-> [w \in Windows |-> 0]]
    /\ rlPassed = [k \in RateKeys |-> [w \in Windows |-> 0]]
    /\ qpc = [q \in Requests |-> "idle"]
    /\ qReq = [q \in Requests |-> IdleRequest]
    /\ qWindow = [q \in Requests |-> 0]
    /\ qCurrent = [q \in Requests |-> 0]
    /\ qStatus = [q \in Requests |-> 0]

\* No function of the factory, the middleware or the request handlers is called.
MessagesIdle ==
    /\ mpc = "idle" /\ mEntry = "none" /\ mAgent = "none"
    /\ mRows = << >> /\ mMessage = "" /\ mHistory = << >> /\ mSent = << >>

ChatRequests == {"c1", "c2"}

QuotaIdle ==
    /\ apiCalls = 0
    /\ kpc = [c \in ChatRequests |-> "idle"]
    /\ kEntry = [c \in ChatRequests |-> "none"]
    /\ kSeen = [c \in ChatRequests |-> 0]

ProcessIdle ==
    /\ dStatus = "pending" /\ dChunkCount = 0 /\ dChunks = 0
    /\ dRows = {} /\ dVectors = {} /\ dNextPoint = 0
    /\ tpc = "idle" /\ tPoints = << >> /\ tRetries = 0 /\ tReindexed = 0

IdleSocketInput ==
    [conversation |-> "found", answer |-> << >>, sources |-> FALSE,
     pipeline |-> "ok", database |-> "ok"]

ConsumerIdle ==
    /\ wsPc = "idle" /\ wsIn = IdleSocketInput /\ wsQueue = << >> /\ wsSent = << >>
    /\ wsFull = << >> /\ wsPersisted = << >> /\ wsUsage = 0

MsgOthersIdle == QuotaIdle /\ ProcessIdle /\ ConsumerIdle
QuotaOthersIdle == MessagesIdle /\ ProcessIdle /\ ConsumerIdle
ProcessOthersIdle == MessagesIdle /\ QuotaIdle /\ ConsumerIdle
ConsumerOthersIdle == MessagesIdle /\ QuotaIdle /\ ProcessIdle
AppIdle == MessagesIdle /\ QuotaIdle /\ ProcessIdle /\ ConsumerIdle
SvcIdle == FactoryIdle /\ ConcurrentIdle /\ RateLimitIdle /\ AppIdle

\* A mocked provider is deterministic: the reply to a request is chosen when it
\* is first asked and is the same for every later call.
Replies(memo, all) == IF memo = << >> THEN all ELSE {memo[1]}
Asked(memo, out, rep) == IF out.calls = << >> THEN memo ELSE <<rep>>
AskedSearch(memo, out, rep) ==
    IF \E i \in DOMAIN out.calls : out.calls[i].fn = "search" THEN <<rep>> ELSE memo

Init ==
    /\ query \in Queries
    /\ agent_mode \in Modes
    /\ collection_id \in Collections
    /\ routerReply = << >> /\ genReply = << >>
    /\ embedReply = << >> /\ searchReply = << >>
    /\ pc = [r \in Runs |-> "router"]
    /\ state = [r \in Runs |-> initial_state(query, collection_id, agent_mode)]
    /\ trace = [r \in Runs |-> << >>]
    /\ calls = [r \in Runs |-> << >>]
    /\ raised = [r \in Runs |-> "none"]
    /\ events = << >>
    /\ tokenPos = 0
    /\ result = << >>
    /\ rpc = "idle" /\ rOp = "none" /\ rTopK = 0 /\ rUseCompression = FALSE
    /\ compressReply = "ok" /\ rOut = NoOutcome
    /\ IngestIdle /\ SvcIdle

\* What a node's outcome does to the run: an exception ends it, otherwise the
\* run goes on to `next`.
Step(r, node, out, next) ==
    /\ trace' = [trace EXCEPT ![r] = Append(@, node)]
    /\ calls' = [calls EXCEPT ![r] = @ \o out.calls]
    /\ IF out.raised # "none"
       THEN /\ raised' = [raised EXCEPT ![r] = out.raised]
            /\ pc' = [pc EXCEPT ![r] = "error"]
            /\ state' = state
       ELSE /\ raised' = raised
            /\ pc' = [pc EXCEPT ![r] = next]
            /\ state' = [state EXCEPT ![r] = out.state]

\* node "router", then the edge router -> retriever
Router(r) ==
    /\ pc[r] = "router"
    /\ \E rep \in Replies(routerReply, RouterReplies) :
         LET out == route_query(state[r], rep)
         IN /\ Step(r, "router", out, "retriever")
            /\ routerReply' = Asked(routerReply, out, rep)
    /\ UNCHANGED <<argVars, genReply, embedReply, searchReply, events, tokenPos,
                   result, retVars, ingestVars, svcVars>>

\* node "retriever"; the streaming loop yields the sources next if there are any
Retriever(r) ==
    /\ pc[r] = "retriever"
    /\ \E er \in Replies(embedReply, EmbedReplies),
          sr \in Replies(searchReply, SearchReplies(MaxGraphHits)) :
         LET out == retrieve_documents(state[r], er, sr)
         IN /\ Step(r, "retriever", out,
                    IF r = "streaming" /\ out.raised = "none" /\ SourcesDue(out.state)
                    THEN "yield_sources" ELSE "agent")
            /\ embedReply' = Asked(embedReply, out, er)
            /\ searchReply' = AskedSearch(searchReply, out, sr)
    /\ UNCHANGED <<argVars, routerReply, genReply, events, tokenPos, result, retVars, ingestVars, svcVars>>

\* yield {"type": "sources", ...}
YieldSources ==
    /\ pc["streaming"] = "yield_sources"
    /\ events' = Append(events, [type |-> "sources", sources |-> state["streaming"].sources])
    /\ pc' = [pc EXCEPT !["streaming"] = "agent"]
    /\ UNCHANGED <<argVars, envVars, state, trace, calls, raised, tokenPos, result,
                   retVars, ingestVars, svcVars>>

\* the conditional edge, then the agent node it names, then the edge to END
Agent(r) ==
    /\ pc[r] = "agent"
    /\ ConditionalEdge(state[r]) \in Modes
    /\ \E rep \in Replies(genReply, GenReplies) :
         LET node == ConditionalEdge(state[r])
             out == AgentNode(node, state[r], rep)
         IN /\ Step(r, node, out,
                    IF r = "blocking" THEN "return"
                    ELSE IF out.raised = "none" /\ Len(out.state.answer) > 0
                    THEN "yield_token" ELSE "yield_metadata")
            /\ genReply' = Asked(genReply, out, rep)
    /\ tokenPos' = IF r = "streaming" THEN 0 ELSE tokenPos
    /\ UNCHANGED <<argVars, routerReply, embedReply, searchReply, events, result,
                   retVars, ingestVars, svcVars>>

\* run_agent_graph returns
Return ==
    /\ pc["blocking"] = "return"
    /\ result' = <<BlockingResult(state["blocking"])>>
    /\ pc' = [pc EXCEPT !["blocking"] = "done"]
    /\ UNCHANGED <<argVars, envVars, state, trace, calls, raised, events, tokenPos,
                   retVars, ingestVars, svcVars>>

\* yield {"type": "token", ...} for i in range(0, len(answer), chunk_size)
YieldToken ==
    /\ pc["streaming"] = "yield_token"
    /\ LET answer == state["streaming"].answer
       IN /\ events' = Append(events, [type |-> "token",
                                       content |-> TokenSlice(answer, tokenPos)])
          /\ tokenPos' = tokenPos + ChunkSize
          /\ pc' = [pc EXCEPT !["streaming"] =
                       IF tokenPos + ChunkSize < Len(answer)
                       THEN "yield_token" ELSE "yield_metadata"]
    /\ UNCHANGED <<argVars, envVars, state, trace, calls, raised, result, retVars, ingestVars, svcVars>>

\* yield {"type": "metadata", ...}, after which the stream ends
YieldMetadata ==
    /\ pc["streaming"] = "yield_metadata"
    /\ events' = Append(events, [type |-> "metadata",
                                 model |-> DictGet(state["streaming"].metadata,
                                                   "model", "")])
    /\ pc' = [pc EXCEPT !["streaming"] = "done"]
    /\ UNCHANGED <<argVars, envVars, state, trace, calls, raised, tokenPos, result,
                   retVars, ingestVars, svcVars>>

Next ==
    \/ \E r \in Runs : Router(r)
    \/ \E r \in Runs : Retriever(r)
    \/ \E r \in Runs : Agent(r)
    \/ YieldSources
    \/ YieldToken
    \/ YieldMetadata
    \/ Return

Spec == Init /\ [][Next]_vars

\* ------------------------------------------- the retriever called directly
RetrieverOps == {"retrieve_documents", "retrieve"}
CompressionSettings ==
    {<<FALSE, "ok">>} \cup { <<TRUE, c>> : c \in CompressReplies }

InitRetriever ==
    /\ query \in Queries
    /\ agent_mode = "qa"
    /\ rOp \in RetrieverOps
    /\ collection_id \in (IF rOp = "retrieve" THEN Collections \ {None} ELSE Collections)
    /\ routerReply = << >> /\ genReply = << >>
    /\ embedReply \in { <<e>> : e \in EmbedReplies }
    /\ searchReply \in { <<s>> : s \in SearchReplies(MaxHits) }
    /\ pc = [r \in Runs |-> "idle"]
    /\ state = [r \in Runs |-> initial_state(query, collection_id, agent_mode)]
    /\ trace = [r \in Runs |-> << >>]
    /\ calls = [r \in Runs |-> << >>]
    /\ raised = [r \in Runs |-> "none"]
    /\ events = << >>
    /\ tokenPos = 0
    /\ result = << >>
    /\ rpc = "call"
    /\ rTopK \in (IF rOp = "retrieve" THEN 0..MaxTopK ELSE {NodeRerankTopK})
    /\ \E cs \in (IF rOp = "retrieve" THEN CompressionSettings ELSE {<<FALSE, "ok">>}) :
         rUseCompression = cs[1] /\ compressReply = cs[2]
    /\ rOut = NoOutcome
    /\ IngestIdle /\ SvcIdle

\* retrieve_documents(state) on a fresh state
CallRetrieveDocuments ==
    /\ rpc = "call" /\ rOp = "retrieve_documents"
    /\ LET out == retrieve_documents(initial_state(query, collection_id, agent_mode),
                                     embedReply[1], searchReply[1])
       IN rOut' = [docs |-> out.state.retrieved_documents, raised |-> out.raised,
                   calls |-> [i \in DOMAIN out.calls |-> out.calls[i].fn]]
    /\ rpc' = "returned"
    /\ UNCHANGED <<argVars, envVars, runVars, rOp, rTopK, rUseCompression, compressReply,
                   ingestVars, svcVars>>

\* HybridRetriever(collection_id, rerank_top_k=k, use_compression=c).retrieve(query)
CallRetrieve ==
    /\ rpc = "call" /\ rOp = "retrieve"
    /\ rOut' = retrieve(query, rTopK, rUseCompression, embedReply[1], searchReply[1],
                        compressReply)
    /\ rpc' = "returned"
    /\ UNCHANGED <<argVars, envVars, runVars, rOp, rTopK, rUseCompression, compressReply,
                   ingestVars, svcVars>>

NextRetriever == CallRetrieveDocuments \/ CallRetrieve

SpecRetriever == InitRetriever /\ [][NextRetriever]_vars

\* ------------------------------------------------ _rerank called directly
\* No graph run is in progress.
RunsIdle ==
    /\ pc = [r \in Runs |-> "idle"]
    /\ state = [r \in Runs |-> initial_state(query, collection_id, agent_mode)]
    /\ trace = [r \in Runs |-> << >>]
    /\ calls = [r \in Runs |-> << >>]
    /\ raised = [r \in Runs |-> "none"]
    /\ events = << >>
    /\ tokenPos = 0
    /\ result = << >>

InitRerank ==
    /\ query \in Queries
    /\ agent_mode = "qa"
    /\ collection_id = "col-1"
    /\ routerReply = << >> /\ genReply = << >> /\ embedReply = << >>
    /\ searchReply \in { <<[kind |-> "hits", hits |-> h]>> : h \in ResultLists(MaxRerankLen) }
    /\ RunsIdle
    /\ rpc = "call" /\ rOp = "rerank" /\ rTopK = 0 /\ rUseCompression = FALSE
    /\ compressReply = "ok" /\ rOut = NoOutcome
    /\ IngestIdle /\ SvcIdle

\* HybridRetriever(collection_id)._rerank(query, results)
CallRerank ==
    /\ rpc = "call" /\ rOp = "rerank"
    /\ rOut' = [docs |-> rerank(query, searchReply[1].hits), raised |-> "none",
                calls |-> << >>]
    /\ rpc' = "returned"
    /\ UNCHANGED <<argVars, envVars, runVars, rOp, rTopK, rUseCompression, compressReply,
                   ingestVars, svcVars>>

NextRerank == CallRerank

SpecRerank == InitRerank /\ [][NextRerank]_vars

\* -------------------------------------------- chunk_document called directly
\* Neither a graph run nor a retriever call is in progress.
AgentIdle ==
    /\ query = << >> /\ agent_mode = "qa" /\ collection_id = None
    /\ routerReply = << >> /\ genReply = << >>
    /\ embedReply = << >> /\ searchReply = << >>
    /\ RunsIdle
    /\ rpc = "idle" /\ rOp = "none" /\ rTopK = 0 /\ rUseCompression = FALSE
    /\ compressReply = "ok" /\ rOut = NoOutcome

ChunkSizes == {0, 40}
ChunkOverlaps == {0, 10}

InitChunker ==
    /\ AgentIdle /\ EmbedIdle /\ UpsertIdle /\ EnsureIdle /\ SvcIdle
    /\ cpc = "call"
    /\ cText \in Texts
    /\ cSize \in ChunkSizes
    /\ cOverlap \in ChunkOverlaps
    /\ cStrategy \in Strategies
    /\ cOut = NoChunks

\* chunk_document(text, chunk_size=..., chunk_overlap=..., strategy=...)
CallChunkDocument ==
    /\ cpc = "call"
    /\ \E pieces \in PieceLists :
         cOut' = chunk_document(cText, cSize, cOverlap, cStrategy, pieces)
    /\ cpc' = "returned"
    /\ UNCHANGED <<svcVars, argVars, envVars, runVars, retVars, cText, cSize, cOverlap, cStrategy,
                   embVars, upsVars, ensVars>>

NextChunker == CallChunkDocument

SpecChunker == InitChunker /\ [][NextChunker]_vars

\* ------------------------------------------------ embed_texts called directly
InitEmbed ==
    /\ AgentIdle /\ ChunkerIdle /\ UpsertIdle /\ EnsureIdle /\ SvcIdle
    /\ epc = "loop"
    /\ eTexts \in { [k \in 1..n |-> k] : n \in 0..MaxTexts }
    /\ eReply \in EmbedProviderReplies
    /\ eI = 0 /\ eCalls = << >> /\ eAll = << >> /\ eOut = NoEmbedOutcome

\* One pass of the loop: the next batch goes to the provider and its vectors
\* are appended; an exception of the provider ends the call.
EmbedBatch ==
    /\ epc = "loop" /\ eI < Len(eTexts)
    /\ LET batch == batch_of(eTexts, eI)
       IN IF eReply.kind = "get_embeddings_raises"
          THEN /\ epc' = "error"
               /\ eOut' = [value |-> << >>, raised |-> "get_embeddings"]
               /\ UNCHANGED <<eI, eCalls, eAll>>
          ELSE IF eReply.kind = "embed_documents_raises" /\ eReply.at = Len(eCalls) + 1
          THEN /\ epc' = "error"
               /\ eCalls' = Append(eCalls, batch)
               /\ eOut' = [value |-> << >>, raised |-> "embed_documents"]
               /\ UNCHANGED <<eI, eAll>>
          ELSE /\ eCalls' = Append(eCalls, batch)
               /\ eAll' = eAll \o embed_documents(batch)
               /\ eI' = eI + EmbedBatchSize
               /\ UNCHANGED <<epc, eOut>>
    /\ UNCHANGED <<svcVars, argVars, envVars, runVars, retVars, chunkVars, eTexts, eReply, upsVars,
                   ensVars>>

\* return all_embeddings
EmbedReturn ==
    /\ epc = "loop" /\ eI >= Len(eTexts)
    /\ epc' = "returned"
    /\ eOut' = [value |-> eAll, raised |-> "none"]
    /\ UNCHANGED <<svcVars, argVars, envVars, runVars, retVars, chunkVars, eTexts, eReply, eI,
                   eCalls, eAll, upsVars, ensVars>>

NextEmbed == EmbedBatch \/ EmbedReturn

SpecEmbed == InitEmbed /\ [][NextEmbed]_vars

\* --------------------------------------------- upsert_vectors called directly
\* Identifiers uuid4 may have issued before the call.
UuidsIssued == {0, 7}

InitUpsert ==
    /\ AgentIdle /\ ChunkerIdle /\ EmbedIdle /\ EnsureIdle /\ SvcIdle
    /\ upc = "call"
    /\ \E n \in 0..MaxPoints : \E m \in {n, Max(n - 1, 0)} :
         /\ uEmbeddings = [k \in 1..n |-> Embed(k)]
         /\ uPayloads = [k \in 1..m |-> Payload(k)]
    /\ uReply \in UpsertReplies
    /\ uuidLast \in UuidsIssued
    /\ uPointIds = << >> /\ uPoints = << >> /\ uI = 0 /\ uCalls = << >>
    /\ uOut = NoUpsertOutcome

\* point_ids = [...]; points = [...]
UpsertBuildPoints ==
    /\ upc = "call"
    /\ LET point_ids == fresh_uuids(uuidLast, Len(uEmbeddings))
       IN /\ uPointIds' = point_ids
          /\ uPoints' = zip_points(point_ids, uEmbeddings, uPayloads)
          /\ uuidLast' = uuidLast + Len(uEmbeddings)
    /\ upc' = "loop"
    /\ UNCHANGED <<svcVars, argVars, envVars, runVars, retVars, chunkVars, embVars, ensVars,
                   uEmbeddings, uPayloads, uReply, uI, uCalls, uOut>>

\* One pass of the loop: client.upsert of the next batch; an exception of the
\* client ends the call, the batches written before stay written.
UpsertBatch ==
    /\ upc = "loop" /\ uI < Len(uPoints)
    /\ IF uReply.kind = "upsert_raises" /\ uReply.at = Len(uCalls) + 1
       THEN /\ upc' = "error"
            /\ uOut' = [value |-> << >>, raised |-> "upsert"]
            /\ UNCHANGED <<uI, uCalls>>
       ELSE /\ uCalls' = Append(uCalls, points_batch(uPoints, uI))
            /\ uI' = uI + UpsertBatchSize
            /\ UNCHANGED <<upc, uOut>>
    /\ UNCHANGED <<svcVars, argVars, envVars, runVars, retVars, chunkVars, embVars, ensVars,
                   uEmbeddings, uPayloads, uReply, uuidLast, uPointIds, uPoints>>

\* return point_ids
UpsertReturn ==
    /\ upc = "loop" /\ uI >= Len(uPoints)
    /\ upc' = "returned"
    /\ uOut' = [value |-> uPointIds, raised |-> "none"]
    /\ UNCHANGED <<svcVars, argVars, envVars, runVars, retVars, chunkVars, embVars, ensVars,
                   uEmbeddings, uPayloads, uReply, uuidLast, uPointIds, uPoints, uI,
                   uCalls>>

NextUpsert == UpsertBuildPoints \/ UpsertBatch \/ UpsertReturn

SpecUpsert == InitUpsert /\ [][NextUpsert]_vars

\* ------------------------- ensure_collection called by concurrent ingestion runs
CollectionNames == {"col-1", "col-2"}

InitEnsure ==
    /\ AgentIdle /\ ChunkerIdle /\ EmbedIdle /\ UpsertIdle /\ SvcIdle
    /\ qdrant \in SUBSET {"col-2"}
    /\ wpc = [w \in Workers |-> "list"]
    /\ wName \in [Workers -> CollectionNames]
    /\ wLeft \in [Workers -> 0..(MaxEnsureCalls - 1)]
    /\ wRaised = [w \in Workers |-> "none"]
    /\ createLog = << >>

\* collections = [... client.get_collections() ...]; the call returns at once
\* when collection_name is in the list.
GetCollections(w) ==
    /\ wpc[w] = "list"
    /\ wpc' = [wpc EXCEPT ![w] = IF wName[w] \in qdrant THEN "returned" ELSE "create"]
    /\ UNCHANGED <<svcVars, argVars, envVars, runVars, retVars, chunkVars, embVars, upsVars,
                   qdrant, wName, wLeft, wRaised, createLog>>

\* client.create_collection(collection_name, ...): the index creates the
\* collection, or rejects the request when a collection of that name exists,
\* and the exception escapes ensure_collection.
CreateCollection(w) ==
    /\ wpc[w] = "create"
    /\ createLog' = Append(createLog, [by |-> w, name |-> wName[w],
                                       present |-> wName[w] \in qdrant])
    /\ IF wName[w] \in qdrant
       THEN /\ wpc' = [wpc EXCEPT ![w] = "error"]
            /\ wRaised' = [wRaised EXCEPT ![w] = "already exists"]
            /\ UNCHANGED qdrant
       ELSE /\ wpc' = [wpc EXCEPT ![w] = "returned"]
            /\ qdrant' = qdrant \cup {wName[w]}
            /\ UNCHANGED wRaised
    /\ UNCHANGED <<svcVars, argVars, envVars, runVars, retVars, chunkVars, embVars, upsVars,
                   wName, wLeft>>

\* The run calls ensure_collection again: for its next document, or when the
\* task is retried after a failure.
EnsureAgain(w) ==
    /\ wpc[w] \in {"returned", "error"} /\ wLeft[w] > 0
    /\ wpc' = [wpc EXCEPT ![w] = "list"]
    /\ wLeft' = [wLeft EXCEPT ![w] = @ - 1]
    /\ wRaised' = [wRaised EXCEPT ![w] = "none"]
    /\ UNCHANGED <<svcVars, argVars, envVars, runVars, retVars, chunkVars, embVars, upsVars,
                   qdrant, wName, createLog>>

NextEnsure ==
    \E w \in Workers : GetCollections(w) \/ CreateCollection(w) \/ EnsureAgain(w)

SpecEnsure == InitEnsure /\ [][NextEnsure]_vars

\* ------------------------------------------------ the factory called directly
\* Nothing of the agent graph, the retriever or the ingestion is in progress.
CoreIdle == AgentIdle /\ IngestIdle

ProviderNames == {None, "", "azure_openai", "bedrock", "openai", "Bedrock", "anthropic"}
DefaultNames == {"azure_openai", "bedrock", "vertex"}

InitFactory ==
    /\ CoreIdle /\ ConcurrentIdle /\ RateLimitIdle /\ AppIdle
    /\ fpc = "call"
    /\ fWhat \in {"chat", "streaming", "embeddings"}
    /\ fName \in ProviderNames
    /\ fDefault \in DefaultNames
    /\ fOut = NoHandle

\* LLMFactory.get_chat_model(name) / get_streaming_model(name) / get_embeddings(name)
CallFactory ==
    /\ fpc = "call"
    /\ fOut' = IF fWhat = "embeddings"
               THEN get_embeddings(fName, fDefault)
               ELSE get_provider(fWhat, fName, fDefault)
    /\ fpc' = "returned"
    /\ UNCHANGED <<coreVars, conVars, rlVars, appVars, fWhat, fName, fDefault>>

NextFactory == CallFactory

SpecFactory == InitFactory /\ [][NextFactory]_vars

\* ------------------------------------- two pipeline runs in one process
ConcurrentInputs ==
    { [query |-> q, agent_mode |-> m, collection_id |-> c, router |-> ro,
       embed |-> "ok", search |-> se, gen |-> g] :
        q \in {<<"RAG">>, <<"What", "llm", "rag", "rag">>},
        m \in {"qa", "summarise"},
        c \in Collections,
        ro \in { [kind |-> "decision", route |-> "research", reasoning |-> "llm_reasoning"],
                 [kind |-> "unparseable", route |-> "", reasoning |-> ""],
                 [kind |-> "invoke_raises", route |-> "", reasoning |-> ""] },
        se \in { [kind |-> "hits", hits |-> <<MakeHit(1, <<100, <<"rag", "LLM">> >>)>>],
                 [kind |-> "search_raises", hits |-> << >>] },
        g \in { [kind |-> "content", content |-> <<1, 2>>],
                [kind |-> "invoke_raises", content |-> << >>] } }

InitConcurrent ==
    /\ CoreIdle /\ FactoryIdle /\ RateLimitIdle /\ AppIdle
    /\ xpc = [r \in Invocations |-> "router"]
    /\ xIn \in [Invocations -> ConcurrentInputs]
    /\ xState = [r \in Invocations |->
                   initial_state(xIn[r].query, xIn[r].collection_id, xIn[r].agent_mode)]
    /\ xStages = [r \in Invocations |-> 0]
    /\ xClient = "unset"

\* The outcome of the node invocation r enters next.
NodeOutcome(r) ==
    CASE xpc[r] = "router" -> route_query(xState[r], xIn[r].router)
      [] xpc[r] = "retriever" ->
           retrieve_documents(xState[r], xIn[r].embed, xIn[r].search)
      [] xpc[r] = "agent" ->
           AgentNode(ConditionalEdge(xState[r]), xState[r], xIn[r].gen)

NodeAfter(node) ==
    CASE node = "router" -> "retriever"
      [] node = "retriever" -> "agent"
      [] node = "agent" -> "done"

\* Invocation r runs its next node; QdrantManager.get_client() builds the shared
\* client the first time a search is made.
RunNode(r) ==
    /\ xpc[r] \in {"router", "retriever", "agent"}
    /\ LET out == NodeOutcome(r)
       IN /\ xState' = write_state(xState, r, out.state)
          /\ xpc' = [xpc EXCEPT ![r] = IF out.raised # "none" THEN "error"
                                        ELSE NodeAfter(xpc[r])]
          /\ xClient' = IF \E i \in DOMAIN out.calls : out.calls[i].fn = "search"
                        THEN "set" ELSE xClient
    /\ xStages' = [xStages EXCEPT ![r] = @ + 1]
    /\ UNCHANGED <<coreVars, facVars, rlVars, appVars, xIn>>

NextConcurrent == \E r \in Invocations : RunNode(r)

SpecConcurrent == InitConcurrent /\ [][NextConcurrent]_vars

\* --------------------------------------- requests at the RateLimitMiddleware
HttpRequests ==
    { [user |-> u, ip |-> "ip1", api |-> a] : u \in {"", "u1"}, a \in BOOLEAN }

LimitOfKey(k) == IF k = "ratelimit:user:u1" THEN RateLimitUser ELSE RateLimitAnon

\* The requests arrive in window 0, after c earlier requests of each key were
\* let through one after another in this window (c is 0, limit - 1 or limit).
InitRateLimit ==
    /\ CoreIdle /\ FactoryIdle /\ ConcurrentIdle /\ AppIdle
    /\ rlClock = 0
    /\ \E c \in [RateKeys -> {0, 1, 2}] :
         LET served(k) == CASE c[k] = 0 -> 0
                            [] c[k] = 1 -> LimitOfKey(k) - 1
                            [] OTHER -> LimitOfKey(k)
         IN /\ rlCache = [k \in RateKeys |->
                            [w \in Windows |-> IF w = 0 THEN served(k) ELSE 0]]
            /\ rlPassed = rlCache
    /\ qpc = [q \in Requests |-> "new"]
    /\ qReq \in [Requests -> HttpRequests]
    /\ qWindow = [q \in Requests |-> 0]
    /\ qCurrent = [q \in Requests |-> 0]
    /\ qStatus = [q \in Requests |-> 0]

\* The clock enters the next 60-second window.
Tick ==
    /\ rlClock < MaxWindow
    /\ rlClock' = rlClock + 1
    /\ UNCHANGED <<coreVars, facVars, conVars, appVars, rlCache, rlPassed, qpc, qReq, qWindow,
                   qCurrent, qStatus>>

\* A request that is not for /api/ goes straight to get_response.
PassOther(q) ==
    /\ qpc[q] = "new" /\ ~qReq[q].api
    /\ qpc' = [qpc EXCEPT ![q] = "done"]
    /\ qStatus' = [qStatus EXCEPT ![q] = 200]
    /\ UNCHANGED <<coreVars, facVars, conVars, appVars, rlClock, rlCache, rlPassed, qReq, qWindow,
                   qCurrent>>

\* window_key = f"{key}:{int(now // window)}"; current = cache.get(window_key, 0);
\* at the limit the request is answered with 429.
CacheGet(q) ==
    /\ qpc[q] = "new" /\ qReq[q].api
    /\ LET current == rlCache[rate_key(qReq[q])][rlClock]
       IN /\ qWindow' = [qWindow EXCEPT ![q] = rlClock]
          /\ qCurrent' = [qCurrent EXCEPT ![q] = current]
          /\ IF current >= rate_limit(qReq[q])
             THEN /\ qpc' = [qpc EXCEPT ![q] = "done"]
                  /\ qStatus' = [qStatus EXCEPT ![q] = 429]
             ELSE /\ qpc' = [qpc EXCEPT ![q] = "set"]
                  /\ UNCHANGED qStatus
    /\ UNCHANGED <<coreVars, facVars, conVars, appVars, rlClock, rlCache, rlPassed, qReq>>

\* cache.set(window_key, current + 1, timeout=window); self.get_response(request)
CacheSetAndPass(q) ==
    /\ qpc[q] = "set"
    /\ rlCache' = [rlCache EXCEPT ![rate_key(qReq[q])][qWindow[q]] = qCurrent[q] + 1]
    /\ rlPassed' = [rlPassed EXCEPT ![rate_key(qReq[q])][qWindow[q]] = @ + 1]
    /\ qpc' = [qpc EXCEPT ![q] = "done"]
    /\ qStatus' = [qStatus EXCEPT ![q] = 200]
    /\ UNCHANGED <<coreVars, facVars, conVars, appVars, rlClock, qReq, qWindow, qCurrent>>

NextRateLimit ==
    \/ Tick
    \/ \E q \in Requests : PassOther(q) \/ CacheGet(q) \/ CacheSetAndPass(q)

SpecRateLimit == InitRateLimit /\ [][NextRateLimit]_vars

\* ------------------------------------- the messages sent to the chat model
\* Message.Role
Roles == {"user", "assistant", "system", "tool"}

SystemMessage(content) == [type |-> "system", content |-> content]
HumanMessage(content) == [type |-> "human", content |-> content]
AIMessage(content) == [type |-> "ai", content |-> content]

\* seq[-n:]
LastN(seq, n) == IF Len(seq) <= n THEN seq ELSE SubSeq(seq, Len(seq) - n + 1, Len(seq))

\* _build_messages: the system prompt, then the last 10 turns of the history
\* whose role is user or assistant (a turn of another role appends nothing),
\* then the query.
build_messages(system_prompt, history, q) ==
    LET turns == LastN(history, HistoryWindow)
        kept == SelectSeq(turns, LAMBDA t : t[1] \in {"user", "assistant"})
    IN <<SystemMessage(system_prompt)>>
       \o [i \in DOMAIN kept |-> IF kept[i][1] = "user"
                                 THEN HumanMessage(kept[i][2])
                                 ELSE AIMessage(kept[i][2])]
       \o <<HumanMessage(q)>>

\* QA_SYSTEM_PROMPT, RESEARCH_SYSTEM_PROMPT, SUMMARISE_SYSTEM_PROMPT and
\* ANALYSE_SYSTEM_PROMPT with the context filled in: one text per agent.
system_prompt_of(agent) ==
    CASE agent = "qa" -> "qa prompt"
      [] agent = "research" -> "research prompt"
      [] agent = "summarise" -> "summarise prompt"
      [] OTHER -> "analyse prompt"

\* The contents of the turns a conversation already holds, by position, and
\* the content of the message that is being sent now.
TurnTexts == <<"t1", "t2", "t3", "t4", "t5", "t6", "t7", "t8", "t9", "t10",
               "t11", "t12", "t13", "t14", "t15">>
CurrentText == "now"

\* The stored conversations: user and assistant turns in alternation, with at
\* most one turn of any other role among them.
StoredRows ==
    { [i \in 1..n |-> [role |-> IF i = odd THEN ro
                               ELSE IF i % 2 = 1 THEN "user" ELSE "assistant",
                       content |-> TurnTexts[i]]] :
        n \in 0..MaxHistory, odd \in 0..MaxHistory, ro \in Roles }

ChatEntries == {"rest", "ws", "direct"}

InitMessages ==
    /\ CoreIdle /\ FactoryIdle /\ ConcurrentIdle /\ RateLimitIdle /\ MsgOthersIdle
    /\ mpc = "start"
    /\ mEntry \in ChatEntries
    /\ mAgent \in Modes
    /\ mRows \in StoredRows
    /\ mMessage = CurrentText
    /\ mHistory = << >>
    /\ mSent = << >>

\* Message.objects.create(conversation, role=USER, content=data["message"]) in
\* the view, _save_message(conversation, Message.Role.USER, message) in the
\* consumer
SaveUserMessage ==
    /\ mpc = "start" /\ mEntry \in {"rest", "ws"}
    /\ mRows' = Append(mRows, [role |-> "user", content |-> mMessage])
    /\ mpc' = "saved"
    /\ UNCHANGED <<coreVars, facVars, conVars, rlVars, msgOthers, mEntry, mAgent, mMessage,
                   mHistory, mSent>>

\* list(conversation.messages.order_by("created_at").values_list("role", "content"))
LoadHistory ==
    /\ mpc = "saved"
    /\ mHistory' = [i \in DOMAIN mRows |-> <<mRows[i].role, mRows[i].content>>]
    /\ mpc' = "loaded"
    /\ UNCHANGED <<coreVars, facVars, conVars, rlVars, msgOthers, mEntry, mAgent, mRows,
                   mMessage, mSent>>

\* run_agent_graph called with a history of the caller's own
CallDirect ==
    /\ mpc = "start" /\ mEntry = "direct"
    /\ mHistory' = [i \in DOMAIN mRows |-> <<mRows[i].role, mRows[i].content>>]
    /\ mpc' = "loaded"
    /\ UNCHANGED <<coreVars, facVars, conVars, rlVars, msgOthers, mEntry, mAgent, mRows,
                   mMessage, mSent>>

\* the agent node: _build_messages(<its prompt>, state), then llm.invoke(messages)
InvokeChatModel ==
    /\ mpc = "loaded"
    /\ mSent' = build_messages(system_prompt_of(mAgent), mHistory, mMessage)
    /\ mpc' = "sent"
    /\ UNCHANGED <<coreVars, facVars, conVars, rlVars, msgOthers, mEntry, mAgent, mRows,
                   mMessage, mHistory>>

NextMessages == SaveUserMessage \/ LoadHistory \/ CallDirect \/ InvokeChatModel

SpecMessages == InitMessages /\ [][NextMessages]_vars

\* ------------------------------------------------- the monthly quota gate
\* User.has_quota on a user whose api_calls_this_month reads `calls`
has_quota(api_calls_this_month) == api_calls_this_month < ApiQuotaMonthly

\* The user has made no call yet this month, or is one call short of the
\* quota, or has used it up; two chat requests of the user arrive.
InitQuota ==
    /\ CoreIdle /\ FactoryIdle /\ ConcurrentIdle /\ RateLimitIdle /\ QuotaOthersIdle
    /\ apiCalls \in {0, ApiQuotaMonthly - 1, ApiQuotaMonthly}
    /\ kpc = [c \in ChatRequests |-> "new"]
    /\ kEntry \in [ChatRequests -> {"rest", "ws"}]
    /\ kSeen = [c \in ChatRequests |-> 0]

\* if not user.has_quota(): 429 (view); if not await self._check_quota(): error
\* (consumer)
CheckQuota(c) ==
    /\ kpc[c] = "new"
    /\ kSeen' = [kSeen EXCEPT ![c] = apiCalls]
    /\ kpc' = [kpc EXCEPT ![c] = IF has_quota(apiCalls) THEN "admitted" ELSE "refused"]
    /\ UNCHANGED <<coreVars, facVars, conVars, rlVars, quotaOthers, apiCalls, kEntry>>

\* run_agent_graph (view) or the loop over astream_agent_graph (consumer): it
\* returns, or it raises and the request ends without a usage increment.
RunPipeline(c) ==
    /\ kpc[c] = "admitted"
    /\ \E outcome \in {"ran", "failed"} : kpc' = [kpc EXCEPT ![c] = outcome]
    /\ UNCHANGED <<coreVars, facVars, conVars, rlVars, quotaOthers, apiCalls, kEntry, kSeen>>

\* increment_usage: api_calls_this_month = F("api_calls_this_month") + 1, an
\* increment the database applies to the stored value
IncrementUsage(c) ==
    /\ kpc[c] = "ran"
    /\ apiCalls' = apiCalls + 1
    /\ kpc' = [kpc EXCEPT ![c] = "done"]
    /\ UNCHANGED <<coreVars, facVars, conVars, rlVars, quotaOthers, kEntry, kSeen>>

NextQuota == \E c \in ChatRequests : CheckQuota(c) \/ RunPipeline(c) \/ IncrementUsage(c)

SpecQuota == InitQuota /\ [][NextQuota]_vars

\* ------------------------------------------- the processing of a document
\* A document was uploaded and its first process_document_task is queued.
InitProcess ==
    /\ CoreIdle /\ FactoryIdle /\ ConcurrentIdle /\ RateLimitIdle /\ ProcessOthersIdle
    /\ dStatus = "pending" /\ dChunkCount = 0
    /\ dChunks \in 0..MaxDocChunks
    /\ dRows = {} /\ dVectors = {} /\ dNextPoint = 0
    /\ tpc = "queued" /\ tPoints = << >> /\ tRetries = 0 /\ tReindexed = 0

\* The except branch of process, then that of the task: the document is marked
\* FAILED, the exception goes to self.retry, which queues the task again until
\* max_retries is used up.
Failed(unchanged) ==
    /\ dStatus' = "failed"
    /\ tPoints' = << >>
    /\ IF tRetries < TaskMaxRetries
       THEN tpc' = "queued" /\ tRetries' = tRetries + 1
       ELSE tpc' = "idle" /\ tRetries' = tRetries
    /\ UNCHANGED <<coreVars, facVars, conVars, rlVars, procOthers, dChunks, tReindexed>>
    /\ UNCHANGED unchanged

\* process begins: status = PROCESSING
StartProcess ==
    /\ tpc = "queued"
    /\ dStatus' = "processing"
    /\ tpc' = "load"
    /\ UNCHANGED <<coreVars, facVars, conVars, rlVars, procOthers, dChunkCount, dChunks,
                   dRows, dVectors, dNextPoint, tPoints, tRetries, tReindexed>>

\* _compute_hash, load_document, chunk_document, embed_texts: any of them may raise
LoadChunkEmbed ==
    /\ tpc = "load"
    /\ \E outcome \in {"ok", "raises"} :
         IF outcome = "ok"
         THEN /\ tpc' = "store"
              /\ UNCHANGED <<coreVars, facVars, conVars, rlVars, procOthers, dStatus,
                             dChunkCount, dChunks, dRows, dVectors, dNextPoint, tPoints,
                             tRetries, tReindexed>>
         ELSE Failed(<<dChunkCount, dRows, dVectors, dNextPoint>>)

\* _store_chunks up to upsert_vectors: len(embeddings[0]) raises IndexError for
\* a document without chunks; upsert_vectors gives every point a new uuid and
\* writes them, or raises.
UpsertVectors ==
    /\ tpc = "store"
    /\ \E outcome \in {"ok", "raises"} :
         IF dChunks > 0 /\ outcome = "ok"
         THEN /\ tPoints' = [i \in 1..dChunks |-> dNextPoint + i]
              /\ dVectors' = dVectors \cup { dNextPoint + i : i \in 1..dChunks }
              /\ dNextPoint' = dNextPoint + dChunks
              /\ tpc' = "rows"
              /\ UNCHANGED <<coreVars, facVars, conVars, rlVars, procOthers, dStatus,
                             dChunkCount, dChunks, dRows, tRetries, tReindexed>>
         ELSE Failed(<<dChunkCount, dRows, dVectors, dNextPoint>>)

\* DocumentChunk.objects.bulk_create: (document, chunk_index) is unique, so
\* the insert raises IntegrityError if the document has a row of one of these
\* indices; it may also raise for a reason of the database's own.
BulkCreate ==
    /\ tpc = "rows"
    /\ \E outcome \in {"ok", "raises"} :
         IF outcome = "ok" /\ ~ \E row \in dRows : row.chunk_index \in 0..(dChunks - 1)
         THEN /\ dRows' = dRows \cup { [chunk_index |-> i - 1, qdrant_point_id |-> tPoints[i]] :
                                        i \in 1..dChunks }
              /\ tpc' = "complete"
              /\ UNCHANGED <<coreVars, facVars, conVars, rlVars, procOthers, dStatus,
                             dChunkCount, dChunks, dVectors, dNextPoint, tPoints, tRetries,
                             tReindexed>>
         ELSE Failed(<<dChunkCount, dRows, dVectors, dNextPoint>>)

\* status = COMPLETED, chunk_count = len(chunks); the task returns
Complete ==
    /\ tpc = "complete"
    /\ dStatus' = "completed"
    /\ dChunkCount' = dChunks
    /\ tpc' = "idle"
    /\ tPoints' = << >>
    /\ UNCHANGED <<coreVars, facVars, conVars, rlVars, procOthers, dChunks, dRows,
                   dVectors, dNextPoint, tRetries, tReindexed>>

\* reindex_collection_task: a new process_document_task for a COMPLETED document
Reindex ==
    /\ tpc = "idle" /\ dStatus = "completed"
    /\ tReindexed < MaxReindex
    /\ tReindexed' = tReindexed + 1
    /\ tRetries' = 0
    /\ tpc' = "queued"
    /\ UNCHANGED <<coreVars, facVars, conVars, rlVars, procOthers, dStatus, dChunkCount,
                   dChunks, dRows, dVectors, dNextPoint, tPoints>>

NextProcess ==
    \/ StartProcess
    \/ LoadChunkEmbed
    \/ UpsertVectors
    \/ BulkCreate
    \/ Complete
    \/ Reindex

SpecProcess == InitProcess /\ [][NextProcess]_vars

\* ------------------------------------------------- the WebSocket consumer
Event(type, content) == [type |-> type, content |-> content]

\* range(0, len(answer), chunk_size)
TokenStarts(answer) == { i \in 0..(Len(answer) - 1) : i % ChunkSize = 0 }

\* What astream_agent_graph yields for a run that ends with `answer`: the
\* sources if the retriever had any, the fragments of the answer, the metadata.
\* A run in which a node raises yields what came before that node: the agent
\* yields its events only after it returned, so nothing, or the sources.
stream_events(answer, sources, pipeline) ==
    LET head == IF sources /\ pipeline # "raises_early"
                THEN <<Event("sources", << >>)>> ELSE << >>
        tokens == [k \in 1..Cardinality(TokenStarts(answer)) |->
                     Event("token", TokenSlice(answer, (k - 1) * ChunkSize))]
    IN IF pipeline = "ok"
       THEN head \o tokens \o <<Event("metadata", << >>)>>
       ELSE head

SocketInputs ==
    [conversation : {"found", "missing"}, answer : Answers, sources : BOOLEAN,
     pipeline : {"ok", "raises_early", "raises"},
     database : {"ok", "save_raises", "increment_raises"}]

\* The message is valid JSON with a non-empty text and _check_quota said yes.
InitConsumer ==
    /\ CoreIdle /\ FactoryIdle /\ ConcurrentIdle /\ RateLimitIdle /\ ConsumerOthersIdle
    /\ wsPc = "admitted"
    /\ wsIn \in SocketInputs
    /\ wsQueue = << >> /\ wsSent = << >> /\ wsFull = << >>
    /\ wsPersisted = << >> /\ wsUsage = 0

\* _get_or_create_conversation: Conversation.objects.get (or Collection.objects.get)
\* raises DoesNotExist for an id that is not one of the user's; receive does
\* not catch it.
GetConversation ==
    /\ wsPc = "admitted"
    /\ wsPc' = IF wsIn.conversation = "found" THEN "save_user" ELSE "raised"
    /\ UNCHANGED <<coreVars, facVars, conVars, rlVars, wsOthers, wsIn, wsQueue, wsSent,
                   wsFull, wsPersisted, wsUsage>>

\* _save_message(USER), _get_history, send stream_start, enter the loop
StreamStart ==
    /\ wsPc = "save_user"
    /\ wsSent' = Append(wsSent, Event("stream_start", << >>))
    /\ wsQueue' = stream_events(wsIn.answer, wsIn.sources, wsIn.pipeline)
    /\ wsPc' = "streaming"
    /\ UNCHANGED <<coreVars, facVars, conVars, rlVars, wsOthers, wsIn, wsFull,
                   wsPersisted, wsUsage>>

\* one turn of the loop: a token is added to full_response and sent; sources
\* and metadata are kept for later and nothing is sent
HandleEvent ==
    /\ wsPc = "streaming" /\ wsQueue # << >>
    /\ LET event == Head(wsQueue)
       IN IF event.type = "token"
          THEN /\ wsFull' = wsFull \o event.content
               /\ wsSent' = Append(wsSent, Event("token", event.content))
          ELSE UNCHANGED <<wsFull, wsSent>>
    /\ wsQueue' = Tail(wsQueue)
    /\ UNCHANGED <<coreVars, facVars, conVars, rlVars, wsOthers, wsPc, wsIn,
                   wsPersisted, wsUsage>>

\* the generator is exhausted, or it raises: except Exception: send_error; return
StreamOver ==
    /\ wsPc = "streaming" /\ wsQueue = << >>
    /\ IF wsIn.pipeline = "ok"
       THEN wsPc' = "persist" /\ wsSent' = wsSent
       ELSE /\ wsSent' = Append(wsSent, Event("error", << >>))
            /\ wsPc' = "returned"
    /\ UNCHANGED <<coreVars, facVars, conVars, rlVars, wsOthers, wsIn, wsQueue, wsFull,
                   wsPersisted, wsUsage>>

\* _save_message(ASSISTANT, full_response, ...), outside the try
SaveAssistantMessage ==
    /\ wsPc = "persist"
    /\ IF wsIn.database = "save_raises"
       THEN wsPc' = "raised" /\ wsPersisted' = wsPersisted
       ELSE wsPc' = "increment" /\ wsPersisted' = Append(wsPersisted, wsFull)
    /\ UNCHANGED <<coreVars, facVars, conVars, rlVars, wsOthers, wsIn, wsQueue, wsSent,
                   wsFull, wsUsage>>

\* _increment_usage, outside the try
IncrementUsageSocket ==
    /\ wsPc = "increment"
    /\ IF wsIn.database = "increment_raises"
       THEN wsPc' = "raised" /\ wsUsage' = wsUsage
       ELSE wsPc' = "end" /\ wsUsage' = wsUsage + 1
    /\ UNCHANGED <<coreVars, facVars, conVars, rlVars, wsOthers, wsIn, wsQueue, wsSent,
                   wsFull, wsPersisted>>

\* send stream_end
StreamEnd ==
    /\ wsPc = "end"
    /\ wsSent' = Append(wsSent, Event("stream_end", << >>))
    /\ wsPc' = "returned"
    /\ UNCHANGED <<coreVars, facVars, conVars, rlVars, wsOthers, wsIn, wsQueue, wsFull,
                   wsPersisted, wsUsage>>

NextConsumer ==
    \/ GetConversation
    \/ StreamStart
    \/ HandleEvent
    \/ StreamOver
    \/ SaveAssistantMessage
    \/ IncrementUsageSocket
    \/ StreamEnd

SpecConsumer == InitConsumer /\ [][NextConsumer]_vars

\* ================================================================ claims
\* The run failed inside the node it entered as its n-th.
FailedIn(r, n) == pc[r] = "error" /\ Len(trace[r]) = n
RouteReason(r) == DictGet(state[r].metadata, "route_reason", "")
RouterCalls(r) == { i \in DOMAIN calls[r] : calls[r][i].node = "router" }
EventsOfType(t) == { i \in DOMAIN events : events[i].type = t }

\* C1: the nodes a run enters are, in this order, router, retriever and one
\* agent node, the one named by the route the router set; the agent node is
\* entered only after the retriever (also with no collection bound), and a run
\* that is done has entered exactly these three.
C1_RouteRetrieveGenerate ==
    \A r \in Runs :
      LET t == trace[r]
      IN /\ Len(t) <= 3
         /\ Len(t) >= 1 => t[1] = "router"
         /\ Len(t) >= 2 => t[2] = "retriever"
         /\ Len(t) >= 3 => t[3] \in Modes /\ t[3] = state[r].next_node
         /\ pc[r] \in {"agent", "yield_sources"} => Len(t) = 2
         /\ pc[r] \in {"return", "yield_token", "yield_metadata", "done"} =>
              /\ Len(t) = 3
              /\ DictGet(state[r].metadata, "agent", "") = state[r].next_node

C1_Witness ==
    /\ collection_id = None
    /\ agent_mode = "qa"
    /\ pc["streaming"] = "done" /\ pc["blocking"] = "done"
    /\ trace["streaming"] = <<"router", "retriever", "analyse">>

\* The contents of the token events of ev, concatenated in order.
RECURSIVE ConcatTokens(_)
ConcatTokens(ev) ==
    IF ev = << >> THEN << >>
    ELSE (IF Head(ev).type = "token" THEN Head(ev).content ELSE << >>)
           \o ConcatTokens(Tail(ev))

\* C2: once both runs are done, the contents of the streaming run's token
\* events, concatenated in emission order, are the blocking run's answer.
C2_StreamingConcatenation ==
    (pc["streaming"] = "done" /\ pc["blocking"] = "done")
      => ConcatTokens(events) = result[1].answer

C2_Witness ==
    /\ pc["streaming"] = "done" /\ pc["blocking"] = "done"
    /\ Len(result[1].answer) > 2 * ChunkSize
    /\ Cardinality(EventsOfType("token")) = 3

\* C3: the stream is at most one sources event, first and there exactly when
\* the source list is not empty; then token events of exactly 20 characters,
\* the last of 1 to 20, none for an empty answer; then one metadata event,
\* which ends the stream.
C3_EventShape ==
    /\ \A i \in EventsOfType("sources") : i = 1 /\ events[i].sources # << >>
    /\ \A i \in EventsOfType("metadata") : i = Len(events) /\ pc["streaming"] = "done"
    /\ \A i \in EventsOfType("token") :
         /\ Len(events[i].content) \in 1..20
         /\ Len(events[i].content) < 20 =>
              \A j \in EventsOfType("token") : j <= i
         /\ \A j \in DOMAIN events : j > i => events[j].type # "sources"
    /\ pc["streaming"] = "done" =>
         /\ Cardinality(EventsOfType("metadata")) = 1
         /\ Cardinality(EventsOfType("sources")) =
              (IF state["streaming"].sources # << >> THEN 1 ELSE 0)
         /\ ConcatTokens(events) = state["streaming"].answer
         /\ 20 * Cardinality(EventsOfType("token")) \in
              Len(state["streaming"].answer)..(Len(state["streaming"].answer) + 19)

C3_Witness ==
    /\ pc["streaming"] = "done"
    /\ Len(events) = 5
    /\ events[1].type = "sources"
    /\ Len(events[4].content) = 1

\* C4: with an explicit mode other than qa the router makes no chat provider
\* call, does not fail, sets the route to that mode and records user_selected.
C4_ExplicitModeSkipsLlm ==
    \A r \in Runs :
      (agent_mode # "qa" /\ trace[r] # << >>) =>
        /\ RouterCalls(r) = {}
        /\ ~FailedIn(r, 1)
        /\ state[r].next_node = agent_mode
        /\ RouteReason(r) = "user_selected"

C4_Witness ==
    /\ agent_mode = "research"
    /\ pc["blocking"] = "retriever"
    /\ state["blocking"].next_node = "research"

\* C5: with mode qa and an unparseable reply the router ends without an
\* exception with route qa and reason fallback, in every run that meets it.
C5_UnparseableFallsBack ==
    \A r \in Runs :
      (/\ agent_mode = "qa"
       /\ trace[r] # << >>
       /\ routerReply # << >>
       /\ routerReply[1].kind = "unparseable") =>
        /\ ~FailedIn(r, 1)
        /\ state[r].next_node = "qa"
        /\ RouteReason(r) = "fallback"

C5_Witness ==
    /\ agent_mode = "qa"
    /\ routerReply # << >>
    /\ routerReply[1].kind = "unparseable"
    /\ \A r \in Runs : Len(trace[r]) >= 2 /\ state[r].next_node = "qa"

\* C6: with mode qa, when building or invoking the chat model raises during
\* routing, the router still ends with route qa and reason fallback and no
\* error reaches the caller.
C6_RoutingNeverBlocks ==
    \A r \in Runs :
      (/\ agent_mode = "qa"
       /\ trace[r] # << >>
       /\ routerReply # << >>
       /\ routerReply[1].kind \in {"invoke_raises", "get_chat_model_raises"}) =>
        /\ raised[r] = "none"
        /\ state[r].next_node = "qa"
        /\ RouteReason(r) = "fallback"

\* C7: when the chat provider invocation of the agent node fails, the run
\* ends with that error: the blocking call returns nothing, the stream has no
\* token and no metadata event, and no answer is stored.
C7_GenerationErrorSurfaced ==
    \A r \in Runs :
      (/\ Len(trace[r]) = 3
       /\ genReply # << >>
       /\ genReply[1].kind = "invoke_raises") =>
        /\ pc[r] = "error"
        /\ raised[r] = "llm.invoke"
        /\ state[r].answer = << >>
        /\ r = "blocking" => result = << >>
        /\ r = "streaming" =>
             EventsOfType("token") = {} /\ EventsOfType("metadata") = {}

C7_Witness ==
    /\ \A r \in Runs : FailedIn(r, 3) /\ raised[r] = "llm.invoke"
    /\ EventsOfType("sources") # {}

\* C8: with no collection bound the retrieval returns no passages, raises
\* nothing and calls neither the embedding provider nor the index; with a
\* collection bound and a search that returns no hit it returns no passages,
\* raises nothing and neither re-ranks nor compresses.
C8_EmptyRetrievalIsNoError ==
    rpc = "returned" =>
      /\ collection_id = None =>
           rOut.docs = << >> /\ rOut.raised = "none" /\ rOut.calls = << >>
      /\ (/\ collection_id # None
          /\ embedReply[1] = "ok"
          /\ searchReply[1].kind = "hits"
          /\ searchReply[1].hits = << >>) =>
           /\ rOut.docs = << >> /\ rOut.raised = "none"
           /\ \A i \in DOMAIN rOut.calls : rOut.calls[i] \notin {"rerank", "compress"}

C8_Witness ==
    /\ rpc = "returned"
    /\ rOp = "retrieve_documents"
    /\ collection_id = None
    /\ embedReply[1] = "get_embeddings_raises"
    /\ rOut.docs = << >>

\* The combined score as the specification states it, over the denominator
\* 1000 * max(|queryTerms|, 1): 0.7 * similarity + 0.3 * |qt & pt| / max(|qt|, 1).
ClaimCombined(q, h) ==
    LET qt == { Lower(q[i]) : i \in DOMAIN q }
        pt == { Lower(h.content[i]) : i \in DOMAIN h.content }
    IN 7 * h.score * Max(Cardinality(qt), 1) + 300 * Cardinality(qt \cap pt)

Candidate(id) ==
    LET hits == searchReply[1].hits
    IN hits[CHOOSE i \in DOMAIN hits : hits[i].id = id]

C10_CompressionFallback ==
    (/\ rpc = "returned" /\ rOp = "retrieve"
     /\ rUseCompression /\ compressReply # "ok"
     /\ embedReply[1] = "ok" /\ searchReply[1].kind = "hits") =>
      LET ranked == Prefix(rerank(query, searchReply[1].hits), rTopK)
      IN /\ rOut.raised = "none"
         /\ rOut.docs = [i \in DOMAIN ranked |-> ToDocument(ranked[i])]

C10_Witness ==
    /\ rpc = "returned" /\ rOp = "retrieve"
    /\ rUseCompression /\ compressReply = "invoke_raises"
    /\ Len(rOut.docs) = 2
    /\ rOut.docs[1].point_id = 2
    /\ "compress" = rOut.calls[Len(rOut.calls)]

\* |qt & pt| of a query and a result, as the specification defines the overlap.
OverlapCount(q, h) ==
    Cardinality({ Lower(q[i]) : i \in DOMAIN q }
                  \cap { Lower(h.content[i]) : i \in DOMAIN h.content })
QueryTerms(q) == Cardinality({ Lower(q[i]) : i \in DOMAIN q })

\* The two passages of the scenario are results a and b of a direct _rerank
\* call: similarity 0.9 with overlap ratio 0, similarity 0.1 with overlap ratio 1.
WeightingScenario(a, b) ==
    /\ rOp = "rerank" /\ rpc = "returned"
    /\ LET hits == searchReply[1].hits
       IN /\ a \in DOMAIN hits /\ b \in DOMAIN hits
          /\ hits[a].score = 90 /\ OverlapCount(query, hits[a]) = 0
          /\ hits[b].score = 10 /\ QueryTerms(query) >= 1
          /\ OverlapCount(query, hits[b]) = QueryTerms(query)

\* The position of result `id` in the re-ranked list.
RankOf(id) == CHOOSE i \in DOMAIN rOut.docs : rOut.docs[i].id = id

\* The scenario's outcome: the first passage has combined score c1 and the
\* second c2 (thousandths), and the first is ranked above the second.
ScenarioOutcome(a, b, c1, c2) ==
    /\ rOut.docs[RankOf(a)].combined_score = c1 * QueryTerms(query)
    /\ rOut.docs[RankOf(b)].combined_score = c2 * QueryTerms(query)
    /\ RankOf(a) < RankOf(b)

\* C11: for two passages with similarity 0.9 and 0.1 and keyword-overlap
\* ratio 0 and 1 the re-ranker computes the combined scores 0.63 and 0.37
\* (0.7 * 0.1 + 0.3 * 1), and ranks the first above the second.
C11_WeightingScenario ==
    \A a, b \in 1..MaxRerankLen + 1 :
      WeightingScenario(a, b) => ScenarioOutcome(a, b, 630, 370)

\* C11 as stated: the combined scores are 0.63 and 0.3.
C11_AsStated ==
    \A a, b \in 1..MaxRerankLen + 1 :
      WeightingScenario(a, b) => ScenarioOutcome(a, b, 630, 300)

C11_Witness ==
    /\ WeightingScenario(2, 1)
    /\ rOut.docs[1].id = 2
    /\ rOut.docs[1].combined_score = 630 * QueryTerms(query)

\* C12: every passage returned by retrieve carries both its raw similarity
\* score and its combined re-rank score.
C12_PassagesCarryBothScores ==
    (rpc = "returned" /\ rOp = "retrieve") =>
      \A i \in DOMAIN rOut.docs :
        {"score", "combined_score"} \subseteq DOMAIN rOut.docs[i]

\* The chunks a chunk_document call returned.
Chunks == cOut.chunks
ChunkerReturned == cpc = "returned"

\* C13: for every text, strategy, chunk size and overlap (those with chunk
\* size >= 40 and overlap < chunk size among them), each chunk returned by
\* chunk_document has trimmed content of at least 20 characters.
C13_NoShortChunk ==
    ChunkerReturned =>
      \A i \in DOMAIN Chunks : Length(Strip(Chunks[i].content)) >= 20

C13_Witness ==
    /\ ChunkerReturned
    /\ cSize = 40 /\ cOverlap = 10
    /\ Len(cOut.raw_chunks) = 3
    /\ Len(Chunks) = 1
    /\ Length(Chunks[1].content) = 25

\* C14: the chunk_index values of the chunks returned are 0, 1, ..., n-1 in
\* output order, also when a raw chunk was discarded for being short.
C14_ContiguousIndices ==
    ChunkerReturned =>
      \A i \in DOMAIN Chunks : Chunks[i].chunk_index = i - 1

\* The cleaned text as the specification words it: runs of 3 or more newlines
\* become 2, runs of 2 or more spaces become 1, white space at both ends goes.
ClaimCleaned(t) ==
    LET c == [i \in DOMAIN t |->
                IF t[i].ch = "\n" THEN Run("\n", Min(t[i].n, 2))
                ELSE IF t[i].ch = " " THEN Run(" ", 1)
                ELSE t[i]]
        solid == { i \in DOMAIN t : t[i].ch = "x" }
    IN IF solid = {} THEN << >>
       ELSE SubSeq(c, CHOOSE i \in solid : \A j \in solid : i <= j,
                      CHOOSE i \in solid : \A j \in solid : i >= j)

\* The text of the call fits within one chunk.
FitsOneChunk ==
    Length(cText) <= (IF cSize = 0 THEN SettingsChunkSize ELSE cSize)

OneCleanedChunk ==
    Len(Chunks) = 1 /\ Chunks[1].content = ClaimCleaned(cText)

C16_TokenCountFloor ==
    ChunkerReturned =>
      \A i \in DOMAIN Chunks :
        LET n == Length(Chunks[i].content)
            k == Chunks[i].token_count
        IN 4 * k <= n /\ n < 4 * (k + 1)

\* C16 as stated: the token_count is ceil(characterCount / 4).
C16_AsStated ==
    ChunkerReturned =>
      \A i \in DOMAIN Chunks :
        LET n == Length(Chunks[i].content)
            k == Chunks[i].token_count
        IN 4 * (k - 1) < n /\ n <= 4 * k

C16_Witness ==
    /\ ChunkerReturned
    /\ \E i \in DOMAIN Chunks :
         Length(Chunks[i].content) = 23 /\ Chunks[i].token_count = 5

\* C17: chunk_document called with a strategy name that is not one of
\* recursive, markdown or token signals an error and returns no chunks.
C17_UnknownStrategyIsError ==
    (ChunkerReturned /\ cStrategy \notin {"recursive", "markdown", "token"}) =>
      cOut.raised # "none" /\ Chunks = << >>

\* The texts handed to the provider so far, in the order of the calls.
RECURSIVE Flatten(_)
Flatten(ss) == IF ss = << >> THEN << >> ELSE Head(ss) \o Flatten(Tail(ss))

\* C18: embed_texts calls the embedding provider only with consecutive
\* sub-batches of at most 50 texts each (also for no text and for more than 50
\* texts), and returns exactly n vectors, the i-th the embedding of the i-th
\* input text.
C18_EmbedBatching ==
    /\ \A k \in DOMAIN eCalls : Len(eCalls[k]) >= 1 /\ Len(eCalls[k]) <= 50
    /\ Flatten(eCalls) = SubSeq(eTexts, 1, Len(Flatten(eCalls)))
    /\ epc = "returned" =>
         /\ Flatten(eCalls) = eTexts
         /\ Len(eOut.value) = Len(eTexts)
         /\ \A i \in DOMAIN eTexts : eOut.value[i] = [embedding_of |-> eTexts[i]]

C18_Witness ==
    /\ epc = "returned"
    /\ Len(eTexts) = 120
    /\ Len(eCalls) = 3
    /\ Len(eCalls[3]) = 20
    /\ eOut.value[120] = [embedding_of |-> 120]

\* The points written so far, in the order they were written.
Written == Flatten(uCalls)

\* C19: for n vectors with n payloads, upsert_vectors returns n pairwise
\* distinct identifiers, the i-th the id of the point written for the i-th
\* vector; every upsert call carries at most 100 points; over all calls every
\* point is written exactly once, in input order.
C19_UpsertBatching ==
    Len(uEmbeddings) = Len(uPayloads) =>
      /\ \A k \in DOMAIN uCalls : Len(uCalls[k]) <= 100
      /\ upc = "returned" =>
           /\ Len(uOut.value) = Len(uEmbeddings)
           /\ \A i, j \in DOMAIN uOut.value : i # j => uOut.value[i] # uOut.value[j]
           /\ Len(Written) = Len(uEmbeddings)
           /\ \A i \in DOMAIN uEmbeddings :
                /\ Written[i].vector = uEmbeddings[i]
                /\ Written[i].payload = uPayloads[i]
                /\ Written[i].id = uOut.value[i]

C19_Witness ==
    /\ upc = "returned"
    /\ Len(uEmbeddings) = 201 /\ Len(uPayloads) = 201
    /\ Len(uCalls) = 3 /\ Len(uCalls[3]) = 1
    /\ uCalls[3][1].id = uOut.value[201]
    /\ uOut.value[201] = 208

\* C20: however the ensure_collection calls of the ingestion runs interleave,
\* a create request is issued only while the collection is absent, no call
\* fails because the collection already exists, and after a call has returned
\* the collection exists.
C20_EnsureIdempotent ==
    /\ \A k \in DOMAIN createLog : ~createLog[k].present
    /\ \A w \in Workers : wRaised[w] # "already exists"
    /\ \A w \in Workers : wpc[w] = "returned" => wName[w] \in qdrant

\* The names with a registered implementation, as the claim means them.
Registered == {"azure_openai", "bedrock"}
NameOmitted == fName = None \/ fName = ""
Requested == IF NameOmitted THEN fDefault ELSE fName

\* C21: resolving a chat or embedding provider under a name with no registered
\* implementation fails with an error that carries the requested name and the
\* valid names, and returns no handle; with the name omitted the process-wide
\* default name is the one resolved.
C21_UnknownProvider ==
    fpc = "returned" =>
      /\ Requested \notin Registered =>
           /\ fOut.raised # "none" /\ fOut.handle = << >>
           /\ fOut.message = <<[name |-> Requested, available |-> Registered]>>
      /\ Requested \in Registered =>
           /\ fOut.raised = "none"
           /\ Len(fOut.handle) = 1 /\ fOut.handle[1].provider = Requested

C21_Witness ==
    /\ fpc = "returned"
    /\ fName = "" /\ fDefault = "vertex" /\ fWhat = "embeddings"
    /\ fOut.raised = "ValueError"
    /\ fOut.message[1].name = "vertex"

\* What a run with input `in` produces alone, after k of its nodes.
Alone0(in) ==
    [state |-> initial_state(in.query, in.collection_id, in.agent_mode),
     raised |-> "none"]
Alone1(in) ==
    LET o == route_query(Alone0(in).state, in.router)
    IN [state |-> o.state, raised |-> o.raised]
Alone2(in) ==
    IF Alone1(in).raised # "none" THEN Alone1(in)
    ELSE LET o == retrieve_documents(Alone1(in).state, in.embed, in.search)
         IN [state |-> o.state, raised |-> o.raised]
Alone3(in) ==
    IF Alone2(in).raised # "none" THEN Alone2(in)
    ELSE LET st == Alone2(in).state
             o == AgentNode(st.next_node, st, in.gen)
         IN [state |-> o.state, raised |-> o.raised]
AloneAfter(in, k) ==
    CASE k = 0 -> Alone0(in) [] k = 1 -> Alone1(in)
      [] k = 2 -> Alone2(in) [] OTHER -> Alone3(in)

\* C22: however the nodes of two runs in one process interleave, the state of
\* each run is at every moment the state the same run has alone after as many
\* nodes, it fails exactly where it fails alone, and so its answer, sources
\* and metadata are those it produces alone.
C22_RunsIndependent ==
    \A r \in Invocations :
      xpc[r] # "idle" =>
        LET alone == AloneAfter(xIn[r], xStages[r])
        IN /\ xState[r] = alone.state
           /\ (xpc[r] = "error") = (alone.raised # "none")
           /\ xpc[r] = "done" =>
                /\ xStages[r] = 3
                /\ xState[r].answer = Alone3(xIn[r]).state.answer
                /\ xState[r].sources = Alone3(xIn[r]).state.sources
                /\ xState[r].metadata = Alone3(xIn[r]).state.metadata

C22_Witness ==
    /\ xpc["a"] = "done" /\ xpc["b"] = "agent"
    /\ xIn["a"].query # xIn["b"].query
    /\ xState["a"].next_node = "research" /\ xState["b"].next_node = "summarise"
    /\ xState["a"].sources # << >> /\ xState["b"].sources = << >>
    /\ xState["a"].answer = <<1, 2>>

\* C23: for every rate-limit key and every window, at most the key's limit
\* of /api/ requests (100 authenticated, 20 anonymous) is handed to the
\* downstream handler, however the requests interleave; a request answered
\* with 429 is one that found the counter at the limit.
C23_RateLimit ==
    /\ \A k \in RateKeys : \A w \in Windows :
         rlPassed[k][w] <= (IF k = "ratelimit:user:u1" THEN 100 ELSE 20)
    /\ \A q \in Requests :
         qStatus[q] = 429 => qReq[q].api /\ qpc[q] = "done"

\* C24: answer is written only when the GENERATE node of the run completes
\* and sources only when its RETRIEVE node completes, each from its initial
\* empty value: RETRIEVE never changes answer, GENERATE never changes sources.
C24_WrittenOnce ==
    [][\A r \in Runs :
         /\ state'[r].answer # state[r].answer =>
              /\ pc[r] = "agent" /\ pc'[r] # "error"
              /\ state[r].answer = << >>
         /\ state'[r].sources # state[r].sources =>
              /\ pc[r] = "retriever" /\ pc'[r] # "error"
              /\ state[r].sources = << >>]_vars

\* C24 as stated: in the state RETRIEVE hands to GENERATE both answer and
\* sources still hold their initial empty value.
C24_AsStated ==
    \A r \in Runs :
      pc[r] \in {"agent", "yield_sources"} =>
        state[r].answer = << >> /\ state[r].sources = << >>

C24_Witness ==
    /\ pc["blocking"] = "done"
    /\ state["blocking"].sources # << >>
    /\ state["blocking"].answer # << >>
    /\ pc["streaming"] = "agent"
    /\ state["streaming"].sources # << >>
    /\ state["streaming"].answer = << >>

Completed(r) == pc[r] \in {"return", "done", "yield_token", "yield_metadata"}

\* C26: no step of a run removes a metadata key or changes the value of one
\* already written, and a step that completes the GENERATE node leaves
\* metadata.agent equal to the route chosen at ROUTE, metadata.model set and
\* the route_reason of ROUTE present.
C26_MetadataAdditive ==
    [][\A r \in Runs :
         /\ \A k \in DOMAIN state[r].metadata :
              /\ k \in DOMAIN state'[r].metadata
              /\ state'[r].metadata[k] = state[r].metadata[k]
         /\ Completed(r)' =>
              /\ DOMAIN state'[r].metadata = {"route_reason", "agent", "model"}
              /\ state'[r].metadata["agent"] = state'[r].next_node
              /\ state'[r].metadata["agent"] = trace'[r][3]
              /\ state'[r].metadata["model"] = ModelName]_vars

C26_Witness ==
    /\ pc["blocking"] = "done" /\ pc["streaming"] = "done"
    /\ state["blocking"].metadata["agent"] = "research"
    /\ state["blocking"].metadata["route_reason"] = "user_selected"
    /\ state["blocking"].metadata["model"] = ModelName

\* The provider role type of a history role.
RoleType(role) ==
    CASE role = "user" -> "human"
      [] role = "assistant" -> "ai"
      [] role = "system" -> "system"
      [] OTHER -> "tool"

\* C25: in every agent the list sent to the chat model is the system message,
\* then one message for each of the last min(10, |history|) turns of the
\* history, in order and of the provider type of the turn's role (user,
\* assistant, system or tool), then the query as the final user message.
C25_MessageList ==
    mpc = "sent" =>
      LET n == Min(HistoryWindow, Len(mHistory))
          first == Len(mHistory) - n
      IN /\ Len(mSent) = n + 2
         /\ mSent[1] = SystemMessage(system_prompt_of(mAgent))
         /\ \A i \in 1..n :
              mSent[i + 1] = [type |-> RoleType(mHistory[first + i][1]),
                              content |-> mHistory[first + i][2]]
         /\ mSent[n + 2] = HumanMessage(mMessage)

\* C28: for a chat request of the REST view or the WebSocket consumer the
\* list sent to the chat model holds the current user message exactly once,
\* as its final user turn.
C28_CurrentMessageOnce ==
    (mpc = "sent" /\ mEntry \in {"rest", "ws"}) =>
      /\ mSent[Len(mSent)] = HumanMessage(mMessage)
      /\ Cardinality({ i \in DOMAIN mSent : mSent[i] = HumanMessage(mMessage) }) = 1

\* C27: a chat request runs the pipeline only if has_quota read
\* api_calls_this_month below the quota, and api_calls_this_month never
\* exceeds the quota, whatever the interleaving of the user's chat requests.
C27_QuotaGate ==
    /\ \A c \in ChatRequests :
         kpc[c] \in {"admitted", "ran", "failed", "done"} => kSeen[c] < ApiQuotaMonthly
    /\ apiCalls <= ApiQuotaMonthly

\* C29: whenever no processing attempt of the document is under way, the
\* index points that carry the document's id are exactly the points its
\* DocumentChunk rows refer to, and a completed document has chunk_count equal
\* to the number of its rows.
C29_VectorsMatchRows ==
    tpc \in {"queued", "idle"} =>
      /\ dVectors = { row.qdrant_point_id : row \in dRows }
      /\ dStatus = "completed" => dChunkCount = Cardinality(dRows)

SentOfType(t) == { i \in DOMAIN wsSent : wsSent[i].type = t }

RECURSIVE Concat(_)
Concat(contents) ==
    IF contents = << >> THEN << >> ELSE Head(contents) \o Concat(Tail(contents))

TokensSent == LET sent == SelectSeq(wsSent, LAMBDA m : m.type = "token")
              IN [i \in DOMAIN sent |-> sent[i].content]

\* C30: once receive is over for a message that passed validation and the
\* quota check, the client was sent stream_start, then the tokens, then
\* exactly one of stream_end and error as the last message; an assistant
\* message was saved and the usage incremented if and only if stream_end was
\* sent, and the saved content is the concatenation of the tokens sent.
C30_StreamProtocol ==
    wsPc \in {"returned", "raised"} =>
      /\ Len(wsSent) >= 2
      /\ wsSent[1].type = "stream_start"
      /\ \A i \in 2..(Len(wsSent) - 1) : wsSent[i].type = "token"
      /\ wsSent[Len(wsSent)].type \in {"stream_end", "error"}
      /\ (wsPersisted # << >>) <=> (SentOfType("stream_end") # {})
      /\ (wsUsage > 0) <=> (SentOfType("stream_end") # {})
      /\ \A i \in DOMAIN wsPersisted : wsPersisted[i] = Concat(TokensSent)

====
